---- MODULE Spec2Model ----
(***************************************************************************)
(* A model of claude-menubar's session reconciliation and status engine:   *)
(* process discovery and terminal enumeration (process.rs, terminal.rs),   *)
(* transcript resolution and the status decision (transcript.rs) and the   *)
(* poll cycle that publishes a snapshot (serve.rs).                        *)
(*                                                                         *)
(* Representation.  A TTY short name "ttysNNN" is the number NNN; the      *)
(* device path "/dev/ttysNNN" is the pair <<"/dev/", NNN>>.  Names have a  *)
(* fixed width, so the lexicographic order of the paths is the order of    *)
(* the numbers.  A directory is a sequence of strings (a working directory *)
(* is a sequence of characters, so that project_hash can rewrite it).  A   *)
(* transcript path is a record [dir, name].  A file's modification time is *)
(* a positive number; 0 stands for "the file does not exist".  An age is a *)
(* number of ticks, TicksPerSec ticks to the second.                       *)
(***************************************************************************)
EXTENDS Integers, Sequences, FiniteSets, TLC

\* ------------------------------------------------------------------ bounds
NumTtys == 2
NumPids == 2
MaxEnum == 2
NumNames == 2
MaxMtime == 2
TicksPerSec == 2
MaxAgeSecs == 200
MaxAdvances == 2
MaxLines == 4
MaxCycles == 2
MaxConns == 2

\* --------------------------------------------------------------- universe
ShortTtys == 0 .. (NumTtys - 1)
Pids == 2 .. (NumPids + 1)
Names == 1 .. NumNames
Mtimes == 0 .. MaxMtime

None == <<>>

Dev(short) == <<"/dev/", short>>
DevTtys == {Dev(n) : n \in ShortTtys}

\* tty.trim_start_matches("/dev/")
TrimDev(tty) == tty[2]

CwdA == <<"/", "a", "_", "b">>
CwdB == <<"/", "a", "-", "b">>
NoCwd == <<>>
Cwds == {CwdA, CwdB}

project_hash(cwd) ==
    [i \in 1 .. Len(cwd) |-> IF cwd[i] \in {"/", "_"} THEN "-" ELSE cwd[i]]

ProjectDir(cwd) == <<"~/.claude/projects/">> \o project_hash(cwd)

find_state_dir(cwd) ==
    IF cwd = <<>> THEN <<"/tmp/.swiftbar">> ELSE cwd \o <<"/.swiftbar">>

StateDirs == {find_state_dir(c) : c \in Cwds \cup {NoCwd}}
ProjectDirs == {ProjectDir(c) : c \in Cwds \cup {NoCwd}}

EmptyPath == [dir |-> <<>>, name |-> 0]
GonePath == [dir |-> <<"/nonexistent">>, name |-> 0]
LogPaths == {[dir |-> d, name |-> n] : d \in ProjectDirs, n \in Names}
Paths == LogPaths \cup {GonePath}

\* The content of a session-<tty>.json file: absent, unparseable, or a
\* SessionState whose transcript_path is path (possibly the empty string).
AbsentClaim == [st |-> "absent", path |-> EmptyPath]
CorruptClaim == [st |-> "corrupt", path |-> EmptyPath]
OkClaim(p) == [st |-> "ok", path |-> p]

\* `ps -o tty=` printing "??" or nothing.
NoTty == 0 - 1

\* A line or field that does not start with "/dev/ttys".
JunkToken == <<"junk", 0>>
Tokens == DevTtys \cup {JunkToken}

\* The Err of Command::output(): the command could not be run.  It is no
\* output of a command that ran.
CommandFailed == << <<"Err", 0>> >>

\* transcript: None of a SessionInfo.
NoTranscript == [dir |-> <<"None">>, name |-> 0]

\* No state file anywhere; no transcript anywhere.
NoClaims == [d \in StateDirs |-> [t \in ShortTtys |-> AbsentClaim]]
NoFiles == [p \in Paths |-> 0]

VARIABLES
    claims,        \* [StateDirs -> [ShortTtys -> claim file content]]
    state_dirs,    \* the state directories that exist
    files,         \* [Paths -> mtime], 0: no such file
    r_tty,         \* resolve_transcript: the tty_short argument
    r_active,      \* resolve_transcript: the active_ttys argument
    r_result,      \* resolve_transcript: the returned path (EmptyPath: "")
    r_done,        \* resolve_transcript has returned
    st_role,       \* status decision: last_role ("none": no entry seen)
    st_pending,    \* status decision: has_pending_tool
    st_plan,       \* status decision: in_plan_mode
    st_age,        \* status decision: the age, in ticks
    st_status,     \* status decision: the returned Status ("none": not yet)
    st_done,       \* the status decision has returned
    logs,          \* [Paths -> the entries (lines) of the file]
    now,           \* the wall clock, in ticks
    pgrep_out,     \* the pids `pgrep -x claude` prints
    ps_tty,        \* [Pids -> what `ps -o tty=` prints: a short name or NoTty]
    lsof_cwd,      \* [Pids -> the cwd `lsof -p` reports, NoCwd: none]
    iterm_out,     \* the lines osascript prints for iTerm2
    lsof_out,      \* the fields `lsof -c alacritty` prints
    snapshot,      \* the daemon's DisplayResponse.sessions
    published,     \* a poll cycle has published its snapshot
    d_last,        \* determine_status: the latest call (NoCall: none yet)
    d_prev,        \* determine_status: the call before the latest
    d_advances,    \* how often the clock has advanced
    o_pc,          \* determine_status, step by step: its next read
    o_mtime,       \* determine_status: the mtime that line 137 read
    o_age,         \* determine_status: the local age
    o_content,     \* determine_status: the content that line 142 read
    o_hist,        \* the (mtime, content) pairs the file has had, in order
    o_at,          \* the place in o_hist at which line 137 read the mtime
    sc_content,    \* parse_transcript_content: the content, a list of lines
    sc_line,       \* parse_transcript_content: the line the loop is at
    sc_tail,       \* parse_transcript_content: last_role, pending,
                   \* in_plan_mode and last_assistant_tool_names
    mg_iterm2_ttys,     \* merge_sessions: the iterm2_ttys argument
    mg_alacritty_ttys,  \* merge_sessions: the alacritty_ttys argument
    mg_pid_by_tty,      \* merge_sessions: the pid_by_tty argument
    mg_result,          \* merge_sessions: the returned list
    mg_done,            \* merge_sessions has returned
    w_lookup,      \* find_claude_in_tree: the process table
    w_start,       \* find_claude_in_tree: start_pid
    w_pid,         \* find_claude_in_tree: the local pid
    w_inspected,   \* find_claude_in_tree: the pids looked up so far
    w_result,      \* find_claude_in_tree: the returned value
    w_done,        \* find_claude_in_tree has returned
    sv_phase,      \* run_serve: where the process is in its life
    sv_error,      \* run_serve: the step whose Err it returned ("none")
    sv_sock,       \* the socket file exists
    sv_mutex,      \* who holds the Mutex of state ("none": free)
    sv_poll_pc,    \* main thread: its place in the poll loop
    sv_sessions,   \* main thread: the local sessions
    sv_cycle,      \* main thread: the poll cycles run so far
    sv_l_pc,       \* listener thread: its place in the accept loop
    sv_resp,       \* listener thread: the local resp, as far as cloned
    sv_conn,       \* listener thread: the connection of stream
    sv_conns,      \* the connections: state, client, bytes received
    sv_backlog,    \* the connections waiting to be accepted, oldest first
    in_pc,         \* two daemons: the place of each in run_serve
    in_exists,     \* two daemons: what sock_path.exists() returned to each
    sock_owner     \* the daemon whose socket the file at sock_path is (0: no file)

fsVars == <<claims, state_dirs, files>>
resolveVars == <<r_tty, r_active, r_result, r_done>>
statusVars == <<st_role, st_pending, st_plan, st_age, st_status, st_done>>
logVars == <<logs, now>>
procVars == <<pgrep_out, ps_tty, lsof_cwd, iterm_out, lsof_out>>
daemonVars == <<snapshot, published>>
observeVars == <<o_pc, o_mtime, o_age, o_content, o_hist, o_at>>
determineVars == <<d_last, d_prev, d_advances, observeVars>>
scanVars == <<sc_content, sc_line, sc_tail>>
mergeVars == <<mg_iterm2_ttys, mg_alacritty_ttys, mg_pid_by_tty, mg_result, mg_done>>
walkVars == <<w_lookup, w_start, w_pid, w_inspected, w_result, w_done>>
pollLoopVars == <<sv_poll_pc, sv_sessions, sv_cycle>>
listenerVars == <<sv_l_pc, sv_resp, sv_conn>>
instVars == <<in_pc, in_exists, sock_owner>>
serveVars == <<sv_phase, sv_error, sv_sock, sv_mutex, pollLoopVars, listenerVars,
               sv_conns, sv_backlog, instVars>>
vars == <<fsVars, resolveVars, statusVars, logVars, procVars, daemonVars,
          determineVars, scanVars, mergeVars, walkVars, serveVars>>

\* ------------------------------------------------------ transcript.rs
is_file(p) == p \in DOMAIN files /\ files[p] > 0

\* The state file of tty_short in state_dir as the reads of lines 241-244
\* see it: a file of a directory that does not exist is not there.
StateFile(state_dir, tty_short) ==
    IF state_dir \in state_dirs /\ state_dir \in DOMAIN claims
    THEN claims[state_dir][tty_short]
    ELSE AbsentClaim

\* ValidClaim without the is_file test of lines 246 and 269.
ValidClaim_Unchecked(c) == c.st = "ok" /\ c.path # EmptyPath

\* Lines 245-246 and 268-269: the claim parsed, names a path, the path is a file.
ValidClaim(c) == c.st = "ok" /\ c.path # EmptyPath /\ is_file(c.path)

\* OtherActive without the active_ttys test of line 263.
OtherActive_AnyOther(tty, tty_short, active_ttys) == tty # tty_short

\* Line 263 negated: the state file of tty is one of ANOTHER ACTIVE session.
OtherActive(tty, tty_short, active_ttys) ==
    ~(tty = tty_short \/ tty \notin active_ttys)

\* Lines 254-276: the transcripts claimed by other active sessions' state
\* files.  read_dir of a missing directory fails and leaves the set empty.
ClaimedByOthers(tty_short, state_dir, active_ttys) ==
    IF state_dir \notin state_dirs
    THEN {}
    ELSE {StateFile(state_dir, t).path :
            t \in {u \in ShortTtys :
                     /\ StateFile(state_dir, u).st # "absent"
                     /\ OtherActive(u, tty_short, active_ttys)
                     /\ ValidClaim(StateFile(state_dir, u))}}

\* The orders in which read_dir may list project_dir: every order of the
\* names that exist in it.
ExistingNames(project_dir) ==
    {n \in Names : is_file([dir |-> project_dir, name |-> n])}

Orders(S) ==
    {s \in [1 .. Cardinality(S) -> S] :
        \A i, j \in 1 .. Cardinality(S) : i # j => s[i] # s[j]}

Listings(project_dir) == Orders(ExistingNames(project_dir))

\* The listings read_dir may give during one poll cycle, one per directory.
RECURSIVE ReadDirsOf(_)
ReadDirsOf(dirs) ==
    IF dirs = {}
    THEN {<<>>}
    ELSE LET dir == CHOOSE d \in dirs : TRUE
         IN {[d \in dirs |-> IF d = dir THEN listing ELSE rd[d]] :
                rd \in ReadDirsOf(dirs \ {dir}), listing \in Listings(dir)}

ReadDirs == ReadDirsOf(ProjectDirs)

\* Lines 279-293: the (path, mtime) pairs of the .jsonl files of project_dir,
\* in the order in which read_dir lists them.
RECURSIVE Candidates(_, _)
Candidates(project_dir, listing) ==
    IF listing = <<>>
    THEN <<>>
    ELSE LET path == [dir |-> project_dir, name |-> Head(listing)]
         IN (IF is_file(path) THEN <<(<<path, files[path]>>)>> ELSE <<>>)
            \o Candidates(project_dir, Tail(listing))

\* SortNewestFirst with the comparison of line 296 turned round
\* (a.1.cmp(&b.1)): oldest first.
RECURSIVE InsertOldestFirst(_, _)
InsertOldestFirst(x, sorted) ==
    IF sorted = <<>>
    THEN <<x>>
    ELSE IF Head(sorted)[2] <= x[2]
         THEN <<Head(sorted)>> \o InsertOldestFirst(x, Tail(sorted))
         ELSE <<x>> \o sorted

RECURSIVE SortNewestFirst_Oldest(_)
SortNewestFirst_Oldest(transcripts) ==
    IF transcripts = <<>>
    THEN <<>>
    ELSE InsertOldestFirst(transcripts[Len(transcripts)],
                           SortNewestFirst_Oldest(SubSeq(transcripts, 1, Len(transcripts) - 1)))

\* Line 296: transcripts.sort_by(|a, b| b.1.cmp(&a.1)), a stable sort,
\* newest first.
RECURSIVE InsertNewestFirst(_, _)
InsertNewestFirst(x, sorted) ==
    IF sorted = <<>>
    THEN <<x>>
    ELSE IF Head(sorted)[2] >= x[2]
         THEN <<Head(sorted)>> \o InsertNewestFirst(x, Tail(sorted))
         ELSE <<x>> \o sorted

RECURSIVE SortNewestFirst(_)
SortNewestFirst(transcripts) ==
    IF transcripts = <<>>
    THEN <<>>
    ELSE InsertNewestFirst(transcripts[Len(transcripts)],
                           SortNewestFirst(SubSeq(transcripts, 1, Len(transcripts) - 1)))

\* FirstUnclaimed without the claimed test of line 299: the newest file.
FirstUnclaimed_Newest(transcripts, claimed) ==
    IF transcripts = <<>> THEN EmptyPath ELSE Head(transcripts)[1]

\* Lines 298-304: the first path not claimed, or "".
RECURSIVE FirstUnclaimed(_, _)
FirstUnclaimed(transcripts, claimed) ==
    IF transcripts = <<>>
    THEN EmptyPath
    ELSE IF Head(transcripts)[1] \notin claimed
         THEN Head(transcripts)[1]
         ELSE FirstUnclaimed(Tail(transcripts), claimed)

\* OwnClaimValid with the state file looked up under a name no hook writes
\* (line 241 formatting the device path instead of the short name).
OwnClaimValid_WrongName(tty_short, state_dir) == FALSE

\* Lines 240-252: this TTY's state file names a transcript that still exists.
OwnClaimValid(tty_short, state_dir) ==
    ValidClaim(StateFile(state_dir, tty_short))

\* Lines 278-304: the most recent unclaimed transcript.
FallbackPick(tty_short, state_dir, project_dir, active_ttys, listing) ==
    FirstUnclaimed(SortNewestFirst(Candidates(project_dir, listing)),
                   ClaimedByOthers(tty_short, state_dir, active_ttys))

\* Lines 234-305.
resolve_transcript(tty_short, state_dir, project_dir, active_ttys, listing) ==
    IF OwnClaimValid(tty_short, state_dir)
    THEN StateFile(state_dir, tty_short).path
    ELSE FallbackPick(tty_short, state_dir, project_dir, active_ttys, listing)

\* ------------------------------------------- transcript.rs, the status
GraceSecs == 3
PendingTimeoutSecs == 120
RecentSecs == 10
ApiTimeoutSecs == 120

\* An age of secs seconds, in ticks.
Ticks(secs) == secs * TicksPerSec
Ages == 0 .. Ticks(MaxAgeSecs)

\* StatusDecision with the recency test of line 160 moved before the pending
\* test of line 148.
StatusDecision_RecencyFirst(last_role, pending, in_plan_mode, age) ==
    IF age < Ticks(RecentSecs)
    THEN "Active"
    ELSE IF pending /\ age >= Ticks(GraceSecs)
         THEN (IF in_plan_mode
               THEN "Pending"
               ELSE IF age < Ticks(PendingTimeoutSecs) THEN "Pending" ELSE "Idle")
         ELSE IF last_role = "user"
              THEN (IF age < Ticks(ApiTimeoutSecs) THEN "Active" ELSE "Idle")
              ELSE IF in_plan_mode THEN "Pending" ELSE "Idle"

\* StatusDecision without the 3 s grace period of line 148.
StatusDecision_NoGrace(last_role, pending, in_plan_mode, age) ==
    IF pending
    THEN (IF in_plan_mode
          THEN "Pending"
          ELSE IF age < Ticks(PendingTimeoutSecs) THEN "Pending" ELSE "Idle")
    ELSE IF age < Ticks(RecentSecs)
         THEN "Active"
         ELSE IF last_role = "user"
              THEN (IF age < Ticks(ApiTimeoutSecs) THEN "Active" ELSE "Idle")
              ELSE IF in_plan_mode THEN "Pending" ELSE "Idle"

\* StatusDecision without the plan-mode exemption of lines 149-151: a pending
\* tool call times out in plan mode too.
StatusDecision_PlanTimesOut(last_role, pending, in_plan_mode, age) ==
    IF pending /\ age >= Ticks(GraceSecs)
    THEN (IF age < Ticks(PendingTimeoutSecs) THEN "Pending" ELSE "Idle")
    ELSE IF age < Ticks(RecentSecs)
         THEN "Active"
         ELSE IF last_role = "user"
              THEN (IF age < Ticks(ApiTimeoutSecs) THEN "Active" ELSE "Idle")
              ELSE IF in_plan_mode THEN "Pending" ELSE "Idle"

\* StatusDecision without the plan-mode test of line 176: a finished
\* assistant reply is Idle in plan mode too.
StatusDecision_NoPlanRule(last_role, pending, in_plan_mode, age) ==
    IF pending /\ age >= Ticks(GraceSecs)
    THEN (IF in_plan_mode
          THEN "Pending"
          ELSE IF age < Ticks(PendingTimeoutSecs) THEN "Pending" ELSE "Idle")
    ELSE IF age < Ticks(RecentSecs)
         THEN "Active"
         ELSE IF last_role = "user"
              THEN (IF age < Ticks(ApiTimeoutSecs) THEN "Active" ELSE "Idle")
              ELSE "Idle"

\* StatusDecision without the 120 s limit of lines 167-171: a user message
\* keeps the session Active.
StatusDecision_NoApiTimeout(last_role, pending, in_plan_mode, age) ==
    IF pending /\ age >= Ticks(GraceSecs)
    THEN (IF in_plan_mode
          THEN "Pending"
          ELSE IF age < Ticks(PendingTimeoutSecs) THEN "Pending" ELSE "Idle")
    ELSE IF age < Ticks(RecentSecs)
         THEN "Active"
         ELSE IF last_role = "user"
              THEN "Active"
              ELSE IF in_plan_mode THEN "Pending" ELSE "Idle"

\* Lines 148-181: the status of a transcript whose tail parsed to
\* (last_role, pending, in_plan_mode) and whose mtime age is age.
StatusDecision(last_role, pending, in_plan_mode, age) ==
    IF pending /\ age >= Ticks(GraceSecs)
    THEN (IF in_plan_mode
          THEN "Pending"
          ELSE IF age < Ticks(PendingTimeoutSecs) THEN "Pending" ELSE "Idle")
    ELSE IF age < Ticks(RecentSecs)
         THEN "Active"
         ELSE IF last_role = "user"
              THEN (IF age < Ticks(ApiTimeoutSecs) THEN "Active" ELSE "Idle")
              ELSE IF in_plan_mode THEN "Pending" ELSE "Idle"

\* ------------------------------------------ transcript.rs, the log tail
\* A line of a transcript: kind "assistant" (type and role assistant),
\* "user" (type and role user) or anything else for a line the scan skips:
\* "malformed" (blank or not JSON), "progress" (another type or role);
\* array: message.content is an array; items: its items, each with a type,
\* a name ("" when it has none) and is_error; bytes: the line's length.
Item(type, name, is_error) == [type |-> type, name |-> name, is_error |-> is_error]
Entry(kind, array, items, bytes) ==
    [kind |-> kind, array |-> array, items |-> items, bytes |-> bytes]

ToolUse(name) == Item("tool_use", name, FALSE)
ToolResult(is_error) == Item("tool_result", "", is_error)
Text == Item("text", "", FALSE)

TailBytes == 65536

\* Lines 69-73 and 87-91: types.contains(&t).
HasType(items, t) == \E i \in DOMAIN items : items[i].type = t

\* Lines 76-82: the names of the tool_use items, in order.
RECURSIVE ToolUseNames(_)
ToolUseNames(items) ==
    IF items = <<>>
    THEN <<>>
    ELSE (IF Head(items).type = "tool_use" /\ Head(items).name # ""
          THEN <<Head(items).name>>
          ELSE <<>>) \o ToolUseNames(Tail(items))

\* Lines 101-105.
AnyError(items) == \E i \in DOMAIN items : items[i].is_error

\* PlanModeAfter without the is_error test of line 106.
RECURSIVE PlanModeAfter_ExitOnError(_, _, _)
PlanModeAfter_ExitOnError(names, in_plan_mode, is_error) ==
    IF names = <<>>
    THEN in_plan_mode
    ELSE PlanModeAfter_ExitOnError(Tail(names),
                                   CASE Head(names) = "EnterPlanMode" -> TRUE
                                     [] Head(names) = "ExitPlanMode" -> FALSE
                                     [] OTHER -> in_plan_mode,
                                   is_error)

\* Lines 95-112: the plan mode after the results of the named tools.
RECURSIVE PlanModeAfter(_, _, _)
PlanModeAfter(names, in_plan_mode, is_error) ==
    IF names = <<>>
    THEN in_plan_mode
    ELSE PlanModeAfter(Tail(names),
                       CASE Head(names) = "EnterPlanMode" -> TRUE
                         [] Head(names) = "ExitPlanMode" ->
                                (IF ~is_error THEN FALSE ELSE in_plan_mode)
                         [] OTHER -> in_plan_mode,
                       is_error)

TailStart ==
    [last_role |-> "none", pending |-> FALSE, in_plan_mode |-> FALSE, names |-> <<>>]

\* ParseLine without line 92: a tool_result leaves pending as it is.
ParseLine_ResultKeepsPending(acc, entry) ==
    IF entry.kind = "assistant"
    THEN [last_role |-> "assistant",
          pending |-> IF entry.array THEN HasType(entry.items, "tool_use")
                      ELSE acc.pending,
          in_plan_mode |-> acc.in_plan_mode,
          names |-> IF entry.array THEN ToolUseNames(entry.items) ELSE <<>>]
    ELSE IF entry.kind = "user"
         THEN (IF entry.array /\ HasType(entry.items, "tool_result")
               THEN [last_role |-> "user",
                     pending |-> acc.pending,
                     in_plan_mode |-> PlanModeAfter(acc.names, acc.in_plan_mode,
                                                    AnyError(entry.items)),
                     names |-> <<>>]
               ELSE [acc EXCEPT !.last_role = "user"])
         ELSE acc

\* ParseLine with a line that is not JSON ending the scan's memory (an
\* error return in place of the continue of line 57).
ParseLine_MalformedResets(acc, entry) ==
    IF entry.kind = "assistant"
    THEN [last_role |-> "assistant",
          pending |-> IF entry.array THEN HasType(entry.items, "tool_use")
                      ELSE acc.pending,
          in_plan_mode |-> acc.in_plan_mode,
          names |-> IF entry.array THEN ToolUseNames(entry.items) ELSE <<>>]
    ELSE IF entry.kind = "user"
         THEN (IF entry.array /\ HasType(entry.items, "tool_result")
               THEN [last_role |-> "user",
                     pending |-> FALSE,
                     in_plan_mode |-> PlanModeAfter(acc.names, acc.in_plan_mode,
                                                    AnyError(entry.items)),
                     names |-> <<>>]
               ELSE [acc EXCEPT !.last_role = "user"])
         ELSE IF entry.kind = "malformed"
              THEN [last_role |-> "none", pending |-> FALSE,
                    in_plan_mode |-> FALSE, names |-> <<>>]
              ELSE acc

\* Lines 50-116: one line of the scan.
ParseLine(acc, entry) ==
    IF entry.kind = "assistant"
    THEN [last_role |-> "assistant",
          pending |-> IF entry.array THEN HasType(entry.items, "tool_use")
                      ELSE acc.pending,
          in_plan_mode |-> acc.in_plan_mode,
          names |-> IF entry.array THEN ToolUseNames(entry.items) ELSE <<>>]
    ELSE IF entry.kind = "user"
         THEN (IF entry.array /\ HasType(entry.items, "tool_result")
               THEN [last_role |-> "user",
                     pending |-> FALSE,
                     in_plan_mode |-> PlanModeAfter(acc.names, acc.in_plan_mode,
                                                    AnyError(entry.items)),
                     names |-> <<>>]
               ELSE [acc EXCEPT !.last_role = "user"])
         ELSE acc

RECURSIVE ParseFrom(_, _)
ParseFrom(acc, content) ==
    IF content = <<>>
    THEN acc
    ELSE ParseFrom(ParseLine(acc, Head(content)), Tail(content))

\* Lines 44-120.
parse_transcript_content(content) == ParseFrom(TailStart, content)

\* Lines 27-38: the lines that lie whole in the last max_bytes of the file
\* (a line cut by the seek is not JSON and is skipped by the scan).
RECURSIVE LinesWithin(_, _)
LinesWithin(content, max_bytes) ==
    IF content = <<>> \/ content[Len(content)].bytes > max_bytes
    THEN <<>>
    ELSE LinesWithin(SubSeq(content, 1, Len(content) - 1),
                     max_bytes - content[Len(content)].bytes)
         \o <<content[Len(content)]>>

read_tail(path, max_bytes) == LinesWithin(logs[path], max_bytes)

\* Lines 13-24.
parse_transcript_tail(path) ==
    IF path = EmptyPath \/ ~is_file(path)
    THEN TailStart
    ELSE parse_transcript_content(read_tail(path, TailBytes))

NoAge == 0 - 1

\* Lines 123-128: none when the file is gone or its mtime lies in the future.
get_mtime_age(path) ==
    IF ~is_file(path) \/ files[path] > now THEN NoAge ELSE now - files[path]

\* determine_status with an age that cannot be measured taken for a very
\* old one instead of the early return of lines 136-139.
determine_status_AgeDefaultsOld(transcript) ==
    IF transcript = NoTranscript \/ transcript = EmptyPath
    THEN "Active"
    ELSE LET tail == parse_transcript_tail(transcript)
             age == IF get_mtime_age(transcript) = NoAge
                    THEN Ticks(MaxAgeSecs) ELSE get_mtime_age(transcript)
         IN StatusDecision(tail.last_role, tail.pending, tail.in_plan_mode, age)

\* determine_status comparing the wall clock, not the age, with the
\* thresholds.
determine_status_ByClock(transcript) ==
    IF transcript = NoTranscript \/ transcript = EmptyPath
    THEN "Active"
    ELSE IF get_mtime_age(transcript) = NoAge
         THEN "Active"
         ELSE LET tail == parse_transcript_tail(transcript)
              IN StatusDecision(tail.last_role, tail.pending, tail.in_plan_mode,
                                now)

\* Lines 131-181.
determine_status(transcript) ==
    IF transcript = NoTranscript \/ transcript = EmptyPath
    THEN "Active"
    ELSE IF get_mtime_age(transcript) = NoAge
         THEN "Active"
         ELSE LET tail == parse_transcript_tail(transcript)
              IN StatusDecision(tail.last_role, tail.pending, tail.in_plan_mode,
                                get_mtime_age(transcript))

\* A call of determine_status: its argument, the tail state and the age of
\* the transcript at the time of the call, and the Status returned.
Call(transcript, tail, age, status) ==
    [transcript |-> transcript, tail |-> tail, age |-> age, status |-> status]

NoCall == Call(NoTranscript, <<>>, NoAge, "none")

\* ---------------------------------------------------------- process.rs
\* Lines 72-80: pgrep prints the pids in ascending order.
RECURSIVE Ascending(_)
Ascending(S) ==
    IF S = {}
    THEN <<>>
    ELSE LET least == CHOOSE x \in S : \A y \in S : x <= y
         IN <<least>> \o Ascending(S \ {least})

find_claude_pids == Ascending(pgrep_out)

\* Lines 83-89 and 14-20.
get_pid_tty(pid) == IF ps_tty[pid] = NoTty THEN None ELSE Dev(ps_tty[pid])

\* Lines 92-98, with the unwrap_or_default of serve.rs line 105.
get_pid_cwd(pid) == lsof_cwd[pid]

MapInsert(map, key, value) ==
    [k \in DOMAIN map \cup {key} |-> IF k = key THEN value ELSE map[k]]

\* Lines 101-110.
RECURSIVE InsertPids(_, _)
InsertPids(pids, map) ==
    IF pids = <<>>
    THEN map
    ELSE InsertPids(Tail(pids),
                    IF get_pid_tty(Head(pids)) = None
                    THEN map
                    ELSE MapInsert(map, get_pid_tty(Head(pids)), Head(pids)))

build_pid_by_tty == InsertPids(find_claude_pids, <<>>)

StartsWithDevTtys(token) == token[1] = "/dev/"

\* parse_lsof_ttys without the contains test of line 29.
parse_lsof_ttys_NoDedup(output) == SelectSeq(output, StartsWithDevTtys)

\* Lines 24-36: the /dev/ttys fields, each once, in order of first occurrence.
RECURSIVE LsofTtysFrom(_, _)
LsofTtysFrom(output, ttys) ==
    IF output = <<>>
    THEN ttys
    ELSE LsofTtysFrom(Tail(output),
                      IF StartsWithDevTtys(Head(output))
                         /\ ~(\E i \in DOMAIN ttys : ttys[i] = Head(output))
                      THEN Append(ttys, Head(output))
                      ELSE ttys)

parse_lsof_ttys(output) == LsofTtysFrom(output, <<>>)

\* --------------------------------------------------------- terminal.rs
\* Lines 36-42.
parse_iterm2_output(output) == SelectSeq(output, StartsWithDevTtys)

\* Lines 23-33 and 45-54: a command that fails gives the empty output.
\* .ok().map(stdout).unwrap_or_default() of lines 28-30 and 50-52.
StdoutOrDefault(output) == IF output = CommandFailed THEN <<>> ELSE output

enumerate_iterm2_ttys == parse_iterm2_output(StdoutOrDefault(iterm_out))
enumerate_alacritty_ttys == parse_lsof_ttys(StdoutOrDefault(lsof_out))

\* The order of String on device paths of one width.
TtyLeq(a, b) == a[2] <= b[2]

\* Vec::sort on TTY paths (lines 81 and 94).
RECURSIVE InsertTty(_, _)
InsertTty(x, sorted) ==
    IF sorted = <<>>
    THEN <<x>>
    ELSE IF TtyLeq(Head(sorted), x)
         THEN <<Head(sorted)>> \o InsertTty(x, Tail(sorted))
         ELSE <<x>> \o sorted

RECURSIVE SortTtys(_)
SortTtys(ttys) ==
    IF ttys = <<>>
    THEN <<>>
    ELSE InsertTty(ttys[Len(ttys)], SortTtys(SubSeq(ttys, 1, Len(ttys) - 1)))

\* The orders in which pid_by_tty.keys() may iterate (a HashMap's order is
\* unspecified).
KeyOrders(pid_by_tty) == Orders(DOMAIN pid_by_tty)

Tagged(ttys, terminal) == [i \in DOMAIN ttys |-> <<ttys[i], terminal>>]

\* Lines 68-73: iTerm2 first, in tab order, each TTY once.
RECURSIVE ITerm2Part(_, _, _)
ITerm2Part(iterm2_ttys, pid_by_tty, seen) ==
    IF iterm2_ttys = <<>>
    THEN <<>>
    ELSE IF Head(iterm2_ttys) \in DOMAIN pid_by_tty /\ Head(iterm2_ttys) \notin seen
         THEN <<Head(iterm2_ttys)>>
              \o ITerm2Part(Tail(iterm2_ttys), pid_by_tty, seen \cup {Head(iterm2_ttys)})
         ELSE ITerm2Part(Tail(iterm2_ttys), pid_by_tty, seen)

Range(seq) == {seq[i] : i \in DOMAIN seq}

\* AlacrittyPart without the !seen.contains test of line 78.
AlacrittyPart_IgnoresSeen(alacritty_ttys, pid_by_tty, seen) ==
    SortTtys(SelectSeq(alacritty_ttys, LAMBDA tty : tty \in DOMAIN pid_by_tty))

\* AlacrittyPart without the sort of line 81.
AlacrittyPart_Unsorted(alacritty_ttys, pid_by_tty, seen) ==
    SelectSeq(alacritty_ttys,
              LAMBDA tty : tty \in DOMAIN pid_by_tty /\ tty \notin seen)

\* Lines 75-81.
AlacrittyPart(alacritty_ttys, pid_by_tty, seen) ==
    SortTtys(SelectSeq(alacritty_ttys,
                       LAMBDA tty : tty \in DOMAIN pid_by_tty /\ tty \notin seen))

\* UnclaimedPart without the fallback of lines 88-98.
UnclaimedPart_Dropped(keys, seen) == <<>>

\* UnclaimedPart without the sort of line 94.
UnclaimedPart_Unsorted(keys, seen) ==
    SelectSeq(keys, LAMBDA tty : tty \notin seen)

\* Lines 88-94; keys is pid_by_tty.keys() in the order it iterates.
UnclaimedPart(keys, seen) ==
    SortTtys(SelectSeq(keys, LAMBDA tty : tty \notin seen))

\* Lines 60-101; keys is pid_by_tty.keys() in the order it iterates.
merge_sessions(iterm2_ttys, alacritty_ttys, pid_by_tty, keys) ==
    LET iterm2 == ITerm2Part(iterm2_ttys, pid_by_tty, {})
        alacritty == AlacrittyPart(alacritty_ttys, pid_by_tty, Range(iterm2))
        unclaimed == UnclaimedPart(keys, Range(iterm2) \cup Range(alacritty))
    IN Tagged(iterm2, "ITerm2") \o Tagged(alacritty, "Alacritty")
       \o Tagged(unclaimed, "Unknown")

\* ------------------------------------------------------------ serve.rs
\* Lines 91-94.
ActiveTtys(merged) == {TrimDev(merged[i][1]) : i \in DOMAIN merged}

\* Lines 99-137: the SessionInfo of one merged entry; read_dir[d] is the
\* order in which read_dir lists project directory d.
SessionOf(entry, pid_by_tty, active_ttys, read_dir) ==
    LET tty == entry[1]
        pid == pid_by_tty[tty]
        cwd == get_pid_cwd(pid)
        transcript_path == resolve_transcript(TrimDev(tty), find_state_dir(cwd),
                                              ProjectDir(cwd), active_ttys,
                                              read_dir[ProjectDir(cwd)])
        transcript_opt == IF transcript_path = EmptyPath
                          THEN NoTranscript ELSE transcript_path
    IN [tty |-> tty,
        pid |-> pid,
        cwd |-> cwd,
        terminal |-> entry[2],
        transcript |-> transcript_opt,
        status |-> determine_status(transcript_opt)]

\* Lines 86-89: the merged list, for every order in which the process map
\* may iterate.
PollMerges ==
    {merge_sessions(enumerate_iterm2_ttys, enumerate_alacritty_ttys,
                    build_pid_by_tty, keys) : keys \in KeyOrders(build_pid_by_tty)}

\* poll_sessions giving up, with no session, when an enumeration fails.
poll_sessions_AbortsOnFailure(read_dir, merged) ==
    IF iterm_out = CommandFailed \/ lsof_out = CommandFailed
    THEN <<>>
    ELSE LET pid_by_tty == build_pid_by_tty
             known == SelectSeq(merged, LAMBDA entry : entry[1] \in DOMAIN pid_by_tty)
         IN [i \in DOMAIN known |->
               SessionOf(known[i], pid_by_tty, ActiveTtys(merged), read_dir)]

\* Lines 85-141; read_dir gives the directory listings of the cycle and
\* merged is the list that line 89 returned.
poll_sessions(read_dir, merged) ==
    LET pid_by_tty == build_pid_by_tty
        known == SelectSeq(merged, LAMBDA entry : entry[1] \in DOMAIN pid_by_tty)
    IN [i \in DOMAIN known |->
          SessionOf(known[i], pid_by_tty, ActiveTtys(merged), read_dir)]

\* Lines 66-70 of run_serve: one poll cycle, published.
Poll ==
    /\ \E read_dir \in ReadDirs, merged \in PollMerges :
          snapshot' = poll_sessions(read_dir, merged)
    /\ published' = TRUE
    /\ UNCHANGED <<fsVars, resolveVars, statusVars, logVars, procVars>>
    /\ UNCHANGED <<determineVars, scanVars, mergeVars, walkVars, serveVars>>

\* ---------------------------------------------- the status decision, alone
StatusIdle ==
    /\ st_role = "none"
    /\ st_pending = FALSE
    /\ st_plan = FALSE
    /\ st_age = 0
    /\ st_status = "none"
    /\ st_done = FALSE

ResolveIdle ==
    /\ r_tty = 0
    /\ r_active = {}
    /\ r_result = EmptyPath
    /\ r_done = FALSE

FsIdle ==
    /\ claims = NoClaims
    /\ state_dirs = {}
    /\ files = NoFiles

LogIdle ==
    /\ logs = [p \in Paths |-> <<>>]
    /\ now = 0

ProcIdle ==
    /\ pgrep_out = {}
    /\ ps_tty = [p \in Pids |-> NoTty]
    /\ lsof_cwd = [p \in Pids |-> NoCwd]
    /\ iterm_out = <<>>
    /\ lsof_out = <<>>

DaemonIdle ==
    /\ snapshot = <<>>
    /\ published = FALSE

DetermineIdle ==
    /\ d_last = NoCall
    /\ d_prev = NoCall
    /\ d_advances = 0
    /\ o_pc = "idle"
    /\ o_mtime = 0
    /\ o_age = NoAge
    /\ o_content = <<>>
    /\ o_hist = <<>>
    /\ o_at = 0

ScanIdle ==
    /\ sc_content = <<>>
    /\ sc_line = 1
    /\ sc_tail = TailStart

MergeIdle ==
    /\ mg_iterm2_ttys = <<>>
    /\ mg_alacritty_ttys = <<>>
    /\ mg_pid_by_tty = <<>>
    /\ mg_result = <<>>
    /\ mg_done = FALSE

WalkIdle ==
    /\ w_lookup = <<>>
    /\ w_start = 0
    /\ w_pid = 0
    /\ w_inspected = {}
    /\ w_result = None
    /\ w_done = FALSE

\* The daemons of the two-daemon runs.
Daemons == {1, 2}

InstIdle ==
    /\ in_pc = [i \in Daemons |-> "not started"]
    /\ in_exists = [i \in Daemons |-> FALSE]
    /\ sock_owner = 0

ServeIdle ==
    /\ InstIdle
    /\ sv_phase = "NotStarted"
    /\ sv_error = "none"
    /\ sv_sock = FALSE
    /\ sv_mutex = "none"
    /\ sv_poll_pc = "poll"
    /\ sv_sessions = <<>>
    /\ sv_cycle = 0
    /\ sv_l_pc = "accept"
    /\ sv_resp = <<>>
    /\ sv_conn = 0
    /\ sv_conns = <<>>
    /\ sv_backlog = <<>>

InitStatus ==
    /\ st_role \in {"none", "user", "assistant"}
    /\ st_pending \in BOOLEAN
    /\ st_plan \in BOOLEAN
    /\ st_age \in Ages
    /\ st_status = "none"
    /\ st_done = FALSE
    /\ ResolveIdle
    /\ FsIdle
    /\ LogIdle
    /\ ProcIdle
    /\ DaemonIdle
    /\ DetermineIdle
    /\ ScanIdle
    /\ MergeIdle
    /\ WalkIdle
    /\ ServeIdle

Decide ==
    /\ ~st_done
    /\ st_status' = StatusDecision(st_role, st_pending, st_plan, st_age)
    /\ st_done' = TRUE
    /\ UNCHANGED <<fsVars, resolveVars, logVars, procVars, daemonVars>>
    /\ UNCHANGED <<st_role, st_pending, st_plan, st_age>>
    /\ UNCHANGED <<determineVars, scanVars, mergeVars, walkVars, serveVars>>

NextStatus == Decide

SpecStatus == InitStatus /\ [][NextStatus]_vars

\* -------------------------------------------------- claims, SpecStatus
\* The five rules of the status decision, in their precedence order.
Rule1(pending, age) == pending /\ age >= Ticks(3)
Rule2(age) == age < Ticks(10)
Rule3(role) == role = "user"
Rule4(plan) == plan

FiveRuleTable(role, pending, plan, age) ==
    CASE Rule1(pending, age) ->
             (IF plan THEN "Pending"
              ELSE IF age < Ticks(120) THEN "Pending" ELSE "Idle")
      [] ~Rule1(pending, age) /\ Rule2(age) -> "Active"
      [] ~Rule1(pending, age) /\ ~Rule2(age) /\ Rule3(role) ->
             (IF age < Ticks(120) THEN "Active" ELSE "Idle")
      [] ~Rule1(pending, age) /\ ~Rule2(age) /\ ~Rule3(role) /\ Rule4(plan) ->
             "Pending"
      [] OTHER -> "Idle"

\* C8: for every tail state and every age the status is the one the five-rule
\* precedence table gives; a pending tool call of age in [3 s, 10 s) is
\* Pending, and a finished assistant reply of age exactly 10 s is Idle.
C8_FiveRuleTable ==
    st_done =>
        /\ st_status = FiveRuleTable(st_role, st_pending, st_plan, st_age)
        /\ (st_pending /\ st_age >= Ticks(3) /\ st_age < Ticks(10))
              => st_status = "Pending"
        /\ (st_role = "assistant" /\ ~st_pending /\ ~st_plan /\ st_age = Ticks(10))
              => st_status = "Idle"

\* A pending tool call 5 s old, decided Pending (rule 1 before rule 2).
C8_Witness ==
    /\ st_done
    /\ st_pending
    /\ st_age = Ticks(5)
    /\ st_status = "Pending"

\* C9: with an unresolved tool call and an age below 3 s the status is
\* Active, whatever the last role and in or out of review mode.
C9_GracePeriod ==
    (st_done /\ st_pending /\ st_age < Ticks(3)) => st_status = "Active"

\* An unresolved tool call in review mode, one tick short of 3 s: Active.
C9_Witness ==
    /\ st_done
    /\ st_pending
    /\ st_plan
    /\ st_age = Ticks(3) - 1
    /\ st_status = "Active"

\* The transcript of test_plan_mode_pending_no_timeout: EnterPlanMode called,
\* its result, ExitPlanMode called and not answered.
ReviewExample ==
    <<Entry("assistant", TRUE, <<ToolUse("EnterPlanMode")>>, 1),
      Entry("user", TRUE, <<ToolResult(FALSE)>>, 1),
      Entry("assistant", TRUE, <<ToolUse("ExitPlanMode")>>, 1)>>

ReviewExampleStatus(age) ==
    LET tail == parse_transcript_content(ReviewExample)
    IN StatusDecision(tail.last_role, tail.pending, tail.in_plan_mode, age)

\* C10: with an unresolved tool call, outside review mode the status is
\* Pending for 3 s <= age < 120 s and Idle from 120 s on; inside review mode
\* it is Pending for every age >= 3 s, as for the tail [EnterPlanMode call,
\* its result, ExitPlanMode call unanswered] at 200 s.
C10_PendingTimeout ==
    /\ (st_done /\ st_pending /\ st_age >= Ticks(3)) =>
          /\ (~st_plan /\ st_age < Ticks(120)) => st_status = "Pending"
          /\ (~st_plan /\ st_age >= Ticks(120)) => st_status = "Idle"
          /\ st_plan => st_status = "Pending"
    /\ ReviewExampleStatus(Ticks(200)) = "Pending"

\* An unresolved tool call in review mode, 200 s old: still Pending.
C10_Witness ==
    /\ st_done
    /\ st_pending
    /\ st_plan
    /\ st_role = "assistant"
    /\ st_age = Ticks(200)
    /\ st_status = "Pending"

\* C11 as stated: in review mode the status is never Idle, whatever the age,
\* the last role and the pending flag.
C11_ReviewNeverIdle ==
    (st_done /\ st_plan) => st_status # "Idle"

\* C11, amended: in review mode the status is Idle exactly when the last
\* entry is the user's, no tool call is pending and the age is 120 s or more
\* (the request timeout of rule 3); in every other case it is not Idle.
C11_ReviewIdleOnlyByRule3 ==
    (st_done /\ st_plan) =>
        (st_status = "Idle"
            <=> (st_role = "user" /\ ~st_pending /\ st_age >= Ticks(120)))

\* A finished assistant reply in review mode, 200 s old: Pending, not Idle.
C11_Witness ==
    /\ st_done
    /\ st_plan
    /\ ~st_pending
    /\ st_role = "assistant"
    /\ st_age = Ticks(200)
    /\ st_status = "Pending"

\* Review mode, the user's entry last, 120 s old: Idle.
C11_WitnessIdle ==
    /\ st_done
    /\ st_plan
    /\ ~st_pending
    /\ st_role = "user"
    /\ st_age = Ticks(120)
    /\ st_status = "Idle"

\* ------------------------------------------ resolve_transcript, alone
\* The directories of the one project whose sessions are resolved.
ResolveStateDir == find_state_dir(CwdA)
ResolveProjectDir == ProjectDir(CwdA)

ClaimContents ==
    {AbsentClaim, CorruptClaim}
    \cup {OkClaim(p) : p \in {q \in Paths : q.dir = ResolveProjectDir}
                             \cup {GonePath, EmptyPath}}

InitResolve ==
    /\ \E c \in [ShortTtys -> ClaimContents] :
         claims = [d \in StateDirs |->
                     IF d = ResolveStateDir THEN c
                     ELSE [t \in ShortTtys |-> AbsentClaim]]
    /\ state_dirs \in {{}, {ResolveStateDir}}
    /\ state_dirs = {} => claims = NoClaims
    /\ \E m \in [Names -> Mtimes] :
         files = [p \in Paths |->
                    IF p.dir = ResolveProjectDir THEN m[p.name] ELSE 0]
    /\ r_tty \in ShortTtys
    /\ r_active \in {a \in SUBSET ShortTtys : r_tty \in a}
    /\ r_result = EmptyPath
    /\ r_done = FALSE
    /\ StatusIdle
    /\ LogIdle
    /\ ProcIdle
    /\ DaemonIdle
    /\ DetermineIdle
    /\ ScanIdle
    /\ MergeIdle
    /\ WalkIdle
    /\ ServeIdle

Resolve ==
    /\ ~r_done
    /\ \E listing \in Listings(ResolveProjectDir) :
         r_result' = resolve_transcript(r_tty, ResolveStateDir,
                                        ResolveProjectDir, r_active, listing)
    /\ r_done' = TRUE
    /\ UNCHANGED <<fsVars, r_tty, r_active, statusVars>>
    /\ UNCHANGED <<logVars, procVars, daemonVars>>
    /\ UNCHANGED <<determineVars, scanVars, mergeVars, walkVars, serveVars>>

NextResolve == Resolve

SpecResolve == InitResolve /\ [][NextResolve]_vars

\* ------------------------------------------------- claims, SpecResolve
\* What the claims speak of, read off the state (not off the resolver).

\* The PersistedClaim of tty t in the resolved project's state directory
\* exists, parses and names a transcript file that currently exists.
ClaimNamesExisting(t) ==
    /\ ResolveStateDir \in state_dirs
    /\ claims[ResolveStateDir][t].st = "ok"
    /\ claims[ResolveStateDir][t].path \in Paths
    /\ files[claims[ResolveStateDir][t].path] > 0

ClaimedPath(t) == claims[ResolveStateDir][t].path

\* The candidate log files: the existing files of the candidate directory.
ExistingCandidates == {p \in Paths : p.dir = ResolveProjectDir /\ files[p] > 0}

\* The files claimed by a live TTY other than t whose claimed file exists.
ClaimedByLiveOthers(t) ==
    {ClaimedPath(b) : b \in {u \in r_active \ {t} : ClaimNamesExisting(u)}}

Unclaimed(t) == ExistingCandidates \ ClaimedByLiveOthers(t)

\* The results the fallback resolution admits for t: a newest unclaimed
\* candidate, or none when there is no unclaimed candidate.
FallbackResults(t) ==
    IF Unclaimed(t) = {}
    THEN {EmptyPath}
    ELSE {p \in Unclaimed(t) : \A q \in Unclaimed(t) : files[q] <= files[p]}

\* C2: a fallback pick for session A (A's own claim does not apply) is never
\* a transcript that the PersistedClaim of another live TTY names and that
\* exists.
C2_FallbackNeverStealsLiveClaim ==
    (r_done /\ ~ClaimNamesExisting(r_tty))
        => \A b \in r_active \ {r_tty} :
              ClaimNamesExisting(b) => r_result # ClaimedPath(b)

\* A's claim is stale, live B claims X, X is the newest candidate, and A
\* was resolved to the other, older candidate.
C2_Witness ==
    /\ r_done
    /\ ResolveStateDir \in state_dirs
    /\ claims[ResolveStateDir][r_tty] = OkClaim(GonePath)
    /\ \E b \in r_active \ {r_tty} :
          /\ ClaimNamesExisting(b)
          /\ ClaimedPath(b) \in ExistingCandidates
          /\ \A q \in ExistingCandidates : files[q] <= files[ClaimedPath(b)]
          /\ r_result \in ExistingCandidates
          /\ files[r_result] < files[ClaimedPath(b)]

\* C3: a session whose own PersistedClaim exists, parses and names an
\* existing file resolves to exactly that path, whatever the candidates'
\* modification times and the other sessions' claims.
C3_OwnClaimAuthoritative ==
    (r_done /\ ClaimNamesExisting(r_tty)) => r_result = ClaimedPath(r_tty)

\* Two live sessions with valid distinct claims; the resolved one got its own
\* file although the other's is newer.
C3_Witness ==
    /\ r_done
    /\ ClaimNamesExisting(r_tty)
    /\ \E b \in r_active \ {r_tty} :
          /\ ClaimNamesExisting(b)
          /\ ClaimedPath(b) # ClaimedPath(r_tty)
          /\ files[ClaimedPath(b)] > files[ClaimedPath(r_tty)]
    /\ r_result = ClaimedPath(r_tty)

\* C5: the claim of a TTY that is not live is ignored in the claimed-by-
\* others scan: a path is in the scanned set only through a live other TTY,
\* and a file that only a dead TTY claims is returned by the fallback when
\* it is the newest candidate no live session claims.
C5_DeadClaimIgnored ==
    /\ \A p \in ClaimedByOthers(r_tty, ResolveStateDir, r_active) :
          \E b \in r_active \ {r_tty} : ClaimNamesExisting(b) /\ ClaimedPath(b) = p
    /\ (r_done /\ ~ClaimNamesExisting(r_tty))
          => \A d \in ShortTtys \ r_active :
                (/\ ClaimNamesExisting(d)
                 /\ ClaimedPath(d) \in Unclaimed(r_tty)
                 /\ \A q \in Unclaimed(r_tty) \ {ClaimedPath(d)} :
                       files[q] < files[ClaimedPath(d)])
                    => r_result = ClaimedPath(d)

\* A dead TTY's claim names the newest candidate, and the live session got it.
C5_Witness ==
    /\ r_done
    /\ ~ClaimNamesExisting(r_tty)
    /\ \E d \in ShortTtys \ r_active :
          /\ ClaimNamesExisting(d)
          /\ ClaimedPath(d) \in ExistingCandidates
          /\ r_result = ClaimedPath(d)

\* C6: when the own-claim path does not apply, the result is a candidate of
\* greatest modification time among those not claimed by others, and it is
\* none exactly when no candidate is unclaimed.
C6_FallbackNewestUnclaimed ==
    (r_done /\ ~ClaimNamesExisting(r_tty))
        => /\ r_result \in FallbackResults(r_tty)
           /\ (r_result = EmptyPath) <=> (Unclaimed(r_tty) = {})

\* Two unclaimed candidates of different age: the newer was returned.
C6_Witness ==
    /\ r_done
    /\ ~ClaimNamesExisting(r_tty)
    /\ \E p, q \in Unclaimed(r_tty) : files[p] < files[q] /\ r_result = q

\* Every candidate is claimed by a live other session: none is returned.
C6_WitnessNone ==
    /\ r_done
    /\ ~ClaimNamesExisting(r_tty)
    /\ ExistingCandidates # {}
    /\ Unclaimed(r_tty) = {}
    /\ r_result = EmptyPath

\* The four ways in which the own claim does not apply.
StateDirMissing == ResolveStateDir \notin state_dirs
ClaimFileMissing(t) == ~StateDirMissing /\ claims[ResolveStateDir][t].st = "absent"
ClaimFileCorrupt(t) == ~StateDirMissing /\ claims[ResolveStateDir][t].st = "corrupt"
ClaimStale(t) ==
    /\ ~StateDirMissing
    /\ claims[ResolveStateDir][t].st = "ok"
    /\ ~ClaimNamesExisting(t)

\* C7: a missing state directory, a missing claim file, a corrupt claim
\* file or a claim naming a deleted transcript gives the fallback resolution
\* (a newest unclaimed candidate, or none), never the stale path; and a stale
\* or corrupt claim of another TTY adds nothing to the claimed-by-others set.
C7_BadClaimFallsBack ==
    /\ (r_done /\ (\/ StateDirMissing
                   \/ ClaimFileMissing(r_tty)
                   \/ ClaimFileCorrupt(r_tty)
                   \/ ClaimStale(r_tty)))
          => /\ r_result \in FallbackResults(r_tty)
             /\ r_result = EmptyPath \/ files[r_result] > 0
    /\ StateDirMissing => ClaimedByOthers(r_tty, ResolveStateDir, r_active) = {}
    /\ \A b \in ShortTtys \ {r_tty} :
          (ClaimFileCorrupt(b) \/ ClaimStale(b))
              => ClaimedByOthers(r_tty, ResolveStateDir, r_active)
                    = {ClaimedPath(u) :
                         u \in {v \in r_active \ {r_tty, b} : ClaimNamesExisting(v)}}

\* The own claim is stale, a live other TTY's claim is corrupt, and the
\* newest candidate was returned.
C7_Witness ==
    /\ r_done
    /\ ClaimStale(r_tty)
    /\ \E b \in r_active \ {r_tty} : ClaimFileCorrupt(b)
    /\ r_result \in ExistingCandidates
    /\ \E q \in ExistingCandidates : files[q] < files[r_result]

\* The state directory does not exist and the only candidate was returned.
C7_WitnessNoDir ==
    /\ r_done
    /\ StateDirMissing
    /\ r_result \in ExistingCandidates

\* ------------------------------------- discovery, merge and one poll cycle
\* A pid that is no claude process (pgrep does not print it).
NoClaude == NoTty - 1

\* The outputs of an enumeration command: up to MaxEnum lines or fields.
\* osascript prints TTY lines only; the lines of lsof hold other fields too.
Outputs(tokens) == UNION {[1 .. n -> tokens] : n \in 0 .. MaxEnum}

InitDiscover ==
    /\ FsIdle
    /\ LogIdle
    /\ ResolveIdle
    /\ StatusIdle
    /\ DaemonIdle
    /\ \E pt \in [Pids -> {NoClaude, NoTty} \cup ShortTtys] :
          /\ pgrep_out = {p \in Pids : pt[p] # NoClaude}
          /\ ps_tty = [p \in Pids |-> IF pt[p] = NoClaude THEN NoTty ELSE pt[p]]
    /\ lsof_cwd = [p \in Pids |-> IF p \in pgrep_out THEN CwdA ELSE NoCwd]
    /\ iterm_out \in Outputs(DevTtys) \cup {CommandFailed}
    /\ lsof_out \in Outputs(Tokens) \cup {CommandFailed}
    /\ DetermineIdle
    /\ ScanIdle
    /\ MergeIdle
    /\ WalkIdle
    /\ ServeIdle

\* The first cycle of the daemon: the command outputs do not change here,
\* so a later cycle would publish the same snapshot again.
NextDiscover == ~published /\ Poll

SpecDiscover == InitDiscover /\ [][NextDiscover]_vars

\* ------------------------------------------------ claims, SpecDiscover
\* C1: in every published snapshot no two sessions have the same tty.
C1_SnapshotUniqueTty ==
    published =>
        \A i, j \in DOMAIN snapshot : i # j => snapshot[i].tty # snapshot[j].tty

\* A snapshot of two sessions, one of them on a TTY that lsof lists twice and
\* iTerm2 lists too.
C1_Witness ==
    /\ published
    /\ Len(snapshot) = 2
    /\ \E i, j \in DOMAIN lsof_out, k \in DOMAIN iterm_out, n \in DOMAIN snapshot :
          /\ i # j
          /\ lsof_out[i] = lsof_out[j]
          /\ iterm_out[k] = lsof_out[i]
          /\ snapshot[n].tty = lsof_out[i]

\* A snapshot with a session on a TTY that lsof lists twice and iTerm2 does
\* not list.
C1_WitnessAlacritty ==
    /\ published
    /\ \E i, j \in DOMAIN lsof_out, n \in DOMAIN snapshot :
          /\ i # j
          /\ lsof_out[i] = lsof_out[j]
          /\ snapshot[n].tty = lsof_out[i]
          /\ snapshot[n].terminal = "Alacritty"

\* The TTYs with a claude process, as /dev paths.
LiveTtys == {Dev(ps_tty[p]) : p \in {q \in pgrep_out : ps_tty[q] # NoTty}}
SnapshotTtys == {snapshot[i].tty : i \in DOMAIN snapshot}
SnapshotTagged(terminal) ==
    {snapshot[i].tty : i \in {j \in DOMAIN snapshot : snapshot[j].terminal = terminal}}

\* C23: when the enumeration of one terminal kind fails in a poll cycle,
\* that kind contributes no TTY, the other kind's TTYs are enumerated and
\* merged as usual, and the cycle publishes a snapshot with a session for
\* every live TTY.
C23_EnumerationFailureIsLocal ==
    published =>
          /\ iterm_out = CommandFailed
                => /\ SnapshotTagged("ITerm2") = {}
                   /\ lsof_out # CommandFailed
                         => SnapshotTagged("Alacritty") = Range(lsof_out) \cap LiveTtys
          /\ lsof_out = CommandFailed
                => /\ SnapshotTagged("Alacritty") = {}
                   /\ iterm_out # CommandFailed
                         => SnapshotTagged("ITerm2") = Range(iterm_out) \cap LiveTtys
          /\ (iterm_out = CommandFailed \/ lsof_out = CommandFailed)
                => SnapshotTtys = LiveTtys

\* osascript failed; the snapshot has an Alacritty session and a session of
\* no known terminal.
C23_Witness ==
    /\ published
    /\ iterm_out = CommandFailed
    /\ lsof_out # CommandFailed
    /\ Cardinality(SnapshotTagged("Alacritty")) = 1
    /\ Cardinality(SnapshotTagged("Unknown")) = 1

\* lsof failed; the snapshot has two iTerm2 sessions.
C23_WitnessLsof ==
    /\ published
    /\ lsof_out = CommandFailed
    /\ iterm_out # CommandFailed
    /\ Cardinality(SnapshotTagged("ITerm2")) = 2

\* ------------------------------------------------- whole poll cycles
\* Sessions of the projects CwdA and CwdB, which have one project_hash and
\* so one project directory, and a state directory each.
ProjectStateDirs == {find_state_dir(c) : c \in Cwds}

PollClaimContents ==
    {AbsentClaim}
    \cup {OkClaim(p) : p \in {q \in LogPaths : q.dir = ProjectDir(CwdA)}}

InitPoll ==
    /\ ResolveIdle
    /\ StatusIdle
    /\ DaemonIdle
    /\ \E proc \in [Pids -> {<<NoClaude, NoCwd>>} \cup (ShortTtys \X Cwds)] :
          /\ pgrep_out = {p \in Pids : proc[p][1] # NoClaude}
          /\ ps_tty = [p \in Pids |->
                         IF proc[p][1] = NoClaude THEN NoTty ELSE proc[p][1]]
          /\ lsof_cwd = [p \in Pids |-> proc[p][2]]
    /\ iterm_out \in Outputs(DevTtys)
    /\ lsof_out = <<>>
    /\ state_dirs = ProjectStateDirs
    /\ \E c \in [ProjectStateDirs -> [ShortTtys -> PollClaimContents]] :
          claims = [d \in StateDirs |->
                      IF d \in ProjectStateDirs THEN c[d]
                      ELSE [t \in ShortTtys |-> AbsentClaim]]
    /\ \E m \in [Names -> Mtimes] :
          files = [p \in Paths |->
                     IF p.dir = ProjectDir(CwdA) THEN m[p.name] ELSE 0]
    /\ logs = [p \in Paths |-> <<>>]
    /\ now = MaxMtime
    /\ DetermineIdle
    /\ ScanIdle
    /\ MergeIdle
    /\ WalkIdle
    /\ ServeIdle

NextPoll == Poll

SpecPoll == InitPoll /\ [][NextPoll]_vars

\* ----------------------------------------------------- claims, SpecPoll
\* C4: within one poll cycle no two sessions are assigned the same
\* transcript file, also when sessions share a project directory and some
\* or all of them have no valid claim file.
C4_TranscriptInjective ==
    published =>
        \A i, j \in DOMAIN snapshot :
            (i # j /\ snapshot[i].transcript # NoTranscript)
                => snapshot[i].transcript # snapshot[j].transcript

\* ------------------------------------------- determine_status, called twice
\* Lines of a transcript.
AText == Entry("assistant", TRUE, <<Text>>, 1)
ARead == Entry("assistant", TRUE, <<ToolUse("Read")>>, 1)
AEnter == Entry("assistant", TRUE, <<ToolUse("EnterPlanMode")>>, 1)
AExit == Entry("assistant", TRUE, <<ToolUse("ExitPlanMode")>>, 1)
AString == Entry("assistant", FALSE, <<>>, 1)
UResult == Entry("user", TRUE, <<ToolResult(FALSE)>>, 1)
UError == Entry("user", TRUE, <<ToolResult(TRUE)>>, 1)
UText == Entry("user", TRUE, <<Text>>, 1)
Malformed == Entry("malformed", FALSE, <<>>, 1)
Progress == Entry("progress", TRUE, <<Text>>, 1)

\* The two transcripts the calls are made on, and what they may hold: a
\* pending tool call, the same after a skipped line, an answered tool call.
StatusPaths == {[dir |-> ProjectDir(CwdA), name |-> n] : n \in {1, 2}}
StatusLogs == {<<ARead>>, <<Progress, ARead>>, <<ARead, UResult>>}

\* The steps of the clock, and the times a transcript was last written at.
Advances == {Ticks(GraceSecs), Ticks(ApiTimeoutSecs)}
WriteTimes == {1} \cup {1 + a : a \in Advances}

InitDetermine ==
    /\ StatusIdle
    /\ ResolveIdle
    /\ ProcIdle
    /\ DaemonIdle
    /\ ScanIdle
    /\ MergeIdle
    /\ WalkIdle
    /\ ServeIdle
    /\ claims = NoClaims
    /\ state_dirs = {}
    /\ \E m \in [StatusPaths -> {0} \cup WriteTimes] :
          files = [p \in Paths |-> IF p \in StatusPaths THEN m[p] ELSE 0]
    /\ \E l \in [StatusPaths -> StatusLogs] :
          logs = [p \in Paths |-> IF p \in StatusPaths THEN l[p] ELSE <<>>]
    /\ now = 1
    /\ DetermineIdle

\* The tail state and the age determine_status has before it, whether it
\* reads them or not.
TailOf(transcript) ==
    IF transcript = NoTranscript
    THEN <<"none", FALSE, FALSE>>
    ELSE LET tail == parse_transcript_tail(transcript)
         IN <<tail.last_role, tail.pending, tail.in_plan_mode>>

AgeOf(transcript) ==
    IF transcript = NoTranscript \/ transcript = EmptyPath
    THEN NoAge
    ELSE get_mtime_age(transcript)

\* poll_sessions line 128: the status of a session whose transcript is
\* transcript_opt.  Two calls are followed.
Determine ==
    /\ d_prev = NoCall
    /\ \E transcript_opt \in {NoTranscript, EmptyPath} \cup StatusPaths :
          d_last' = Call(transcript_opt, TailOf(transcript_opt),
                         AgeOf(transcript_opt), determine_status(transcript_opt))
    /\ d_prev' = d_last
    /\ UNCHANGED <<fsVars, resolveVars, statusVars, logVars, procVars, daemonVars>>
    /\ UNCHANGED <<d_advances, observeVars, scanVars, mergeVars, walkVars, serveVars>>

\* Time passes.
Advance ==
    /\ d_advances < MaxAdvances
    /\ \E a \in Advances : now' = now + a
    /\ d_advances' = d_advances + 1
    /\ UNCHANGED <<fsVars, resolveVars, statusVars, logs, procVars, daemonVars>>
    /\ UNCHANGED <<d_last, d_prev, observeVars, scanVars, mergeVars, walkVars, serveVars>>

NextDetermine == Determine \/ Advance

SpecDetermine == InitDetermine /\ [][NextDetermine]_vars

\* ------------------------------------------------ claims, SpecDetermine
\* C12: a session without a resolved transcript, or whose transcript's age
\* cannot be measured, is Active, whatever the log holds.
C12_NoTranscriptOrAgeIsActive ==
    (d_last # NoCall
        /\ (d_last.transcript \in {NoTranscript, EmptyPath} \/ d_last.age = NoAge))
    => d_last.status = "Active"

\* A transcript written in the future (no age) that holds a pending tool call.
C12_Witness ==
    /\ d_last # NoCall
    /\ d_last.transcript \in StatusPaths
    /\ files[d_last.transcript] > now
    /\ d_last.tail = <<"assistant", TRUE, FALSE>>
    /\ d_last.status = "Active"

\* A session without a transcript.
C12_WitnessNoTranscript ==
    /\ d_last # NoCall
    /\ d_last.transcript = NoTranscript
    /\ d_last.status = "Active"

\* C13: the status is a function of the tail state and the age alone: a call
\* returns what the call before it returned when both saw the same tail state
\* and the same age, whatever the clock, the transcript and the earlier
\* result; and a call changes no file, log, claim or snapshot.
C13_StatusOfTailAndAgeOnly ==
    [][d_last' # d_last =>
         /\ UNCHANGED <<fsVars, logVars, daemonVars>>
         /\ (d_last # NoCall /\ d_last'.tail = d_last.tail
                /\ d_last'.age = d_last.age)
               => d_last'.status = d_last.status]_vars

\* Two calls on different transcripts at different times that saw the same
\* tail state and the same age of 3 s.
C13_Witness ==
    /\ d_prev # NoCall
    /\ d_prev.transcript # d_last.transcript
    /\ d_prev.tail = d_last.tail
    /\ d_prev.age = Ticks(3)
    /\ d_last.age = Ticks(3)
    /\ d_advances > 0
    /\ files[d_prev.transcript] # files[d_last.transcript]
    /\ logs[d_prev.transcript] # logs[d_last.transcript]
    /\ d_prev.status = "Pending"
    /\ d_last.status = "Pending"

\* ------------------------------- parse_transcript_content, line by line
Lines ==
    {AText, ARead, AEnter, AExit, AString, UResult, UError, UText,
     Malformed, Progress}

Contents == UNION {[1 .. n -> Lines] : n \in 0 .. MaxLines}

InitScan ==
    /\ StatusIdle
    /\ ResolveIdle
    /\ FsIdle
    /\ LogIdle
    /\ ProcIdle
    /\ DaemonIdle
    /\ DetermineIdle
    /\ MergeIdle
    /\ WalkIdle
    /\ ServeIdle
    /\ sc_content \in Contents
    /\ sc_line = 1
    /\ sc_tail = TailStart

\* Lines 50-117: one turn of the loop.
ScanLine ==
    /\ sc_line <= Len(sc_content)
    /\ sc_tail' = ParseLine(sc_tail, sc_content[sc_line])
    /\ sc_line' = sc_line + 1
    /\ UNCHANGED <<fsVars, resolveVars, statusVars, logVars, procVars, daemonVars>>
    /\ UNCHANGED <<determineVars, sc_content, mergeVars, walkVars, serveVars>>

NextScan == ScanLine

SpecScan == InitScan /\ [][NextScan]_vars

\* Line 119: the loop has ended and sc_tail is returned.
ScanDone == sc_line > Len(sc_content)

\* ------------------------------------------------------ claims, SpecScan
\* What the entries of a log say, read off the content alone.
IsAssistant(entry) == entry.kind = "assistant"
IsUser(entry) == entry.kind = "user"
HasToolUse(entry) ==
    /\ IsAssistant(entry)
    /\ entry.array
    /\ \E i \in DOMAIN entry.items : entry.items[i].type = "tool_use"
Invokes(entry, name) ==
    /\ IsAssistant(entry)
    /\ entry.array
    /\ \E i \in DOMAIN entry.items :
          entry.items[i].type = "tool_use" /\ entry.items[i].name = name
IsToolResult(entry) ==
    /\ IsUser(entry)
    /\ entry.array
    /\ \E i \in DOMAIN entry.items : entry.items[i].type = "tool_result"
IsErrorResult(entry) ==
    /\ IsToolResult(entry)
    /\ \E i \in DOMAIN entry.items : entry.items[i].is_error

\* Entry i of content is the last assistant entry before line k and no
\* tool-result has come between them.
Unanswered(content, i, k) ==
    /\ i < k
    /\ IsAssistant(content[i])
    /\ \A j \in (i + 1) .. (k - 1) :
          ~IsAssistant(content[j]) /\ ~IsToolResult(content[j])

\* Line k of content is the tool-result for an invocation of the tool name.
Completes(content, k, name) ==
    /\ IsToolResult(content[k])
    /\ \E i \in 1 .. (k - 1) :
          Unanswered(content, i, k) /\ Invokes(content[i], name)

\* C14 as stated: after the scan has_unresolved_tool_call is true exactly
\* when the last assistant entry contains a tool invocation that no later
\* tool-result has answered.
C14_PendingIffLastAssistantUnanswered ==
    ScanDone =>
        (sc_tail.pending
            <=> \E i \in DOMAIN sc_content :
                   /\ HasToolUse(sc_content[i])
                   /\ Unanswered(sc_content, i, Len(sc_content) + 1))

\* C15: a user entry with a tool-result sets last_role = user and clears
\* has_unresolved_tool_call; a log that ends [assistant tool_use, user
\* tool_result] gives (user, not pending) and is Active at every age below
\* 120 s.
C15_ToolResultClearsPending ==
    /\ (sc_line > 1 /\ IsToolResult(sc_content[sc_line - 1]))
          => (sc_tail.last_role = "user" /\ ~sc_tail.pending)
    /\ (ScanDone /\ Len(sc_content) >= 2
            /\ HasToolUse(sc_content[Len(sc_content) - 1])
            /\ IsToolResult(sc_content[Len(sc_content)]))
          => /\ sc_tail.last_role = "user"
             /\ ~sc_tail.pending
             /\ \A age \in Ages :
                   age < Ticks(120)
                     => StatusDecision(sc_tail.last_role, sc_tail.pending,
                                       sc_tail.in_plan_mode, age) = "Active"

\* The log [assistant tool_use, user tool_result], scanned.
C15_Witness ==
    /\ ScanDone
    /\ sc_content = <<ARead, UResult>>
    /\ sc_tail.last_role = "user"
    /\ ~sc_tail.pending

\* After the scan the review mode is on exactly when an EnterPlanMode was
\* completed and no ExitPlanMode was completed without error after it.
ReviewModeByProtocol(content) ==
    \E k \in DOMAIN content :
        /\ Completes(content, k, "EnterPlanMode")
        /\ \A m \in (k + 1) .. Len(content) :
              ~(Completes(content, m, "ExitPlanMode") /\ ~IsErrorResult(content[m]))

C16_WitnessExit ==
    /\ ScanDone
    /\ sc_content = <<AEnter, UResult, AExit, UResult>>
    /\ ~sc_tail.in_plan_mode

\* The content without the lines that are neither user nor assistant
\* messages.
Kept(entry) == IsAssistant(entry) \/ IsUser(entry)
TailState(tail) == <<tail.last_role, tail.pending, tail.in_plan_mode>>

\* C17: lines that are malformed or neither user nor assistant messages are
\* skipped: a log gives the tail state of the same log without them.
C17_SkippedLinesChangeNothing ==
    ScanDone =>
        TailState(sc_tail)
            = TailState(parse_transcript_content(SelectSeq(sc_content, Kept)))

\* A log with a malformed and a progress line around a pending tool call.
C17_Witness ==
    /\ ScanDone
    /\ sc_content = <<UText, Malformed, ARead, Progress>>
    /\ TailState(sc_tail) = <<"assistant", TRUE, FALSE>>

\* ------------------------------------------------- merge_sessions, alone
\* The TTYs of the tests of terminal.rs, /dev/ttys000 .. /dev/ttys003.
T0 == Dev(0)
T1 == Dev(1)
T2 == Dev(2)
T3 == Dev(3)
MergeTtys == {T0, T1, T2, T3}

\* The lists an enumerator can hand over: any TTYs, in any order, a TTY
\* possibly more than once.
EnumLists == UNION {[1 .. n -> MergeTtys] : n \in 0 .. MaxEnum}

\* A process map: some TTYs live, each with a process of its own.
PidMaps == {[tty \in live |-> 2 + TrimDev(tty)] : live \in SUBSET MergeTtys}

InitMerge ==
    /\ StatusIdle
    /\ ResolveIdle
    /\ FsIdle
    /\ LogIdle
    /\ ProcIdle
    /\ DaemonIdle
    /\ DetermineIdle
    /\ ScanIdle
    /\ WalkIdle
    /\ ServeIdle
    /\ mg_iterm2_ttys \in EnumLists
    /\ mg_alacritty_ttys \in EnumLists
    /\ mg_pid_by_tty \in PidMaps
    /\ mg_result = <<>>
    /\ mg_done = FALSE

\* One call; the same arguments may be merged again.
Merge ==
    /\ \E keys \in KeyOrders(mg_pid_by_tty) :
          mg_result' = merge_sessions(mg_iterm2_ttys, mg_alacritty_ttys,
                                      mg_pid_by_tty, keys)
    /\ mg_done' = TRUE
    /\ UNCHANGED <<fsVars, resolveVars, statusVars, logVars, procVars, daemonVars>>
    /\ UNCHANGED <<determineVars, scanVars, walkVars, serveVars>>
    /\ UNCHANGED <<mg_iterm2_ttys, mg_alacritty_ttys, mg_pid_by_tty>>

NextMerge == Merge

SpecMerge == InitMerge /\ [][NextMerge]_vars

\* ----------------------------------------------------- claims, SpecMerge
Live == DOMAIN mg_pid_by_tty
OutTtys == {mg_result[i][1] : i \in DOMAIN mg_result}
TagRank(terminal) ==
    CASE terminal = "ITerm2" -> 1
      [] terminal = "Alacritty" -> 2
      [] OTHER -> 3
FirstIndex(seq, x) == CHOOSE i \in DOMAIN seq : seq[i] = x /\ \A j \in 1 .. (i - 1) : seq[j] # x
TtysTagged(terminal) ==
    {mg_result[i][1] : i \in {j \in DOMAIN mg_result : mg_result[j][2] = terminal}}

\* C18: the output is three segments in order: the iTerm2 list's live TTYs
\* in their given order tagged ITerm2, then the Alacritty list's live TTYs
\* not yet included, sorted, tagged Alacritty, then the remaining live TTYs,
\* sorted, tagged Unknown; with the two examples of the claim.
C18_ThreeSegments ==
    mg_done =>
        /\ \A i, j \in DOMAIN mg_result :
              i < j => TagRank(mg_result[i][2]) <= TagRank(mg_result[j][2])
        /\ TtysTagged("ITerm2") = Range(mg_iterm2_ttys) \cap Live
        /\ TtysTagged("Alacritty")
              = (Range(mg_alacritty_ttys) \cap Live) \ Range(mg_iterm2_ttys)
        /\ TtysTagged("Unknown")
              = Live \ (Range(mg_iterm2_ttys) \cup Range(mg_alacritty_ttys))
        /\ \A i, j \in DOMAIN mg_result :
              (i < j /\ mg_result[i][2] = "ITerm2" /\ mg_result[j][2] = "ITerm2")
                => FirstIndex(mg_iterm2_ttys, mg_result[i][1])
                     < FirstIndex(mg_iterm2_ttys, mg_result[j][1])
        /\ \A i, j \in DOMAIN mg_result :
              (i < j /\ mg_result[i][2] = mg_result[j][2] /\ mg_result[i][2] # "ITerm2")
                => TtyLeq(mg_result[i][1], mg_result[j][1])
        /\ (mg_iterm2_ttys = <<T0, T2>> /\ mg_alacritty_ttys = <<T3, T1>>
               /\ Live = MergeTtys)
              => mg_result = << <<T0, "ITerm2">>, <<T2, "ITerm2">>,
                                <<T1, "Alacritty">>, <<T3, "Alacritty">> >>
        /\ (mg_iterm2_ttys = <<>> /\ mg_alacritty_ttys = <<>> /\ Live = {T1, T2})
              => mg_result = << <<T1, "Unknown">>, <<T2, "Unknown">> >>

\* The first example of the claim, merged.
C18_Witness ==
    /\ mg_done
    /\ mg_iterm2_ttys = <<T0, T2>>
    /\ mg_alacritty_ttys = <<T3, T1>>
    /\ Live = MergeTtys
    /\ Len(mg_result) = 4

\* All three segments present, the Alacritty one out of order in its list.
C18_WitnessThree ==
    /\ mg_done
    /\ mg_iterm2_ttys = <<T2>>
    /\ mg_alacritty_ttys = <<T3, T1>>
    /\ Live = MergeTtys
    /\ mg_result = << <<T2, "ITerm2">>, <<T1, "Alacritty">>,
                       <<T3, "Alacritty">>, <<T0, "Unknown">> >>

\* C19: the TTYs of the output are exactly the TTYs with a live monitored
\* process, whatever the enumerators report.
C19_OutputIsLiveSet == mg_done => OutTtys = Live

\* An enumerated TTY without a process is left out and a live TTY that no
\* enumerator reports is included.
C19_Witness ==
    /\ mg_done
    /\ T0 \in Range(mg_iterm2_ttys) /\ T0 \notin Live
    /\ T1 \in Live /\ T1 \notin Range(mg_iterm2_ttys) \cup Range(mg_alacritty_ttys)
    /\ T1 \in OutTtys /\ T0 \notin OutTtys

Positions(tty) == {i \in DOMAIN mg_result : mg_result[i][1] = tty}

\* C21: a live TTY reported by both enumerators appears exactly once in the
\* output, tagged ITerm2 and placed in the ITerm2 segment.
C21_FirstClaimedWins ==
    mg_done =>
        \A tty \in (Range(mg_iterm2_ttys) \cap Range(mg_alacritty_ttys)) \cap Live :
            /\ Cardinality(Positions(tty)) = 1
            /\ \A i \in Positions(tty) :
                  \A j \in 1 .. i : mg_result[j][2] = "ITerm2"

\* As in test_merge_overlapping_tty: one TTY in both lists, one only in the second.
C21_Witness ==
    /\ mg_done
    /\ mg_iterm2_ttys = <<T1>>
    /\ mg_alacritty_ttys = <<T1, T2>>
    /\ Live = {T1, T2}
    /\ mg_result = << <<T1, "ITerm2">>, <<T2, "Alacritty">> >>

\* C22: merging the same enumerator lists and the same process map again
\* gives the same ordered list, whatever the order in which the process map
\* iterates in either call.
C22_MergeDeterministic ==
    [][mg_done => mg_result' = mg_result]_vars

\* A merge whose fallback segment has two TTYs, so that the iteration order
\* of the process map has a choice.
C22_Witness ==
    /\ mg_done
    /\ mg_iterm2_ttys = <<T0>>
    /\ mg_alacritty_ttys = <<>>
    /\ Live = {T0, T1, T3}
    /\ mg_result = << <<T0, "ITerm2">>, <<T1, "Unknown">>, <<T3, "Unknown">> >>

\* --------------------------------------------------- the ancestor walk
\* The pids above the root; pid 0 and pid 1 are the root.
WalkPids == 2 .. (NumPids + 2)
StartPids == {0, 1} \cup WalkPids
ParentPids == {1} \cup WalkPids

\* No row for the pid: lookup.get(&pid) is None, ps prints nothing.
NoProcess == [comm |-> "", ppid |-> 0, tty |-> NoTty]

\* The rows of a process table: (comm, ppid, tty).  A shell sits on a TTY of
\* its own; a claude process has TTY 0 or is detached.
Rows ==
    {[comm |-> "zsh", ppid |-> q, tty |-> 1] : q \in ParentPids}
        \cup {[comm |-> "claude", ppid |-> q, tty |-> t] :
                 q \in ParentPids, t \in {NoTty, 0}}

Lookups == [WalkPids -> Rows \cup {NoProcess}]

\* The loop body with a detached claude process passed over.
LoopBody_PassesDetached(lookup, pid) ==
    IF pid <= 1
    THEN [next |-> pid, returned |-> TRUE, value |-> None]
    ELSE IF lookup[pid] = NoProcess
         THEN [next |-> pid, returned |-> TRUE, value |-> None]
         ELSE IF lookup[pid].comm = "claude" /\ lookup[pid].tty # NoTty
              THEN [next |-> pid, returned |-> TRUE,
                    value |-> <<pid, Dev(lookup[pid].tty)>>]
              ELSE [next |-> lookup[pid].ppid, returned |-> FALSE, value |-> None]

\* Lines 116-135 and 148-156: one round of the loop at pid.
LoopBody(lookup, pid) ==
    IF pid <= 1
    THEN [next |-> pid, returned |-> TRUE, value |-> None]
    ELSE IF lookup[pid] = NoProcess
         THEN [next |-> pid, returned |-> TRUE, value |-> None]
         ELSE IF lookup[pid].comm = "claude"
              THEN [next |-> pid, returned |-> TRUE,
                    value |-> IF lookup[pid].tty = NoTty
                              THEN None
                              ELSE <<pid, Dev(lookup[pid].tty)>>]
              ELSE [next |-> lookup[pid].ppid, returned |-> FALSE, value |-> None]

InitWalk ==
    /\ StatusIdle
    /\ ResolveIdle
    /\ FsIdle
    /\ LogIdle
    /\ ProcIdle
    /\ DaemonIdle
    /\ DetermineIdle
    /\ ScanIdle
    /\ MergeIdle
    /\ ServeIdle
    /\ w_lookup \in Lookups
    /\ w_start \in StartPids
    /\ w_pid = w_start
    /\ w_inspected = {}
    /\ w_result = None
    /\ w_done = FALSE

\* One round of the loop of find_claude_ancestor / find_claude_in_tree.
find_claude_in_tree ==
    /\ ~w_done
    /\ LET round == LoopBody(w_lookup, w_pid)
       IN /\ w_pid' = round.next
          /\ w_done' = round.returned
          /\ w_result' = round.value
    /\ w_inspected' = IF w_pid <= 1 THEN w_inspected ELSE w_inspected \cup {w_pid}
    /\ UNCHANGED <<fsVars, resolveVars, statusVars, logVars, procVars, daemonVars>>
    /\ UNCHANGED <<determineVars, scanVars, mergeVars, w_lookup, w_start, serveVars>>

NextWalk == find_claude_in_tree

SpecWalk == InitWalk /\ [][NextWalk]_vars

\* The loop has no sleep and no wait: a round that can run does run.
SpecWalkFair == SpecWalk /\ WF_vars(NextWalk)

RECURSIVE ChainPid(_)
ChainPid(k) ==
    IF k = 0
    THEN w_start
    ELSE LET below == ChainPid(k - 1)
         IN IF below <= 1 \/ w_lookup[below] = NoProcess
            THEN 0
            ELSE w_lookup[below].ppid

IsClaude(pid) == pid > 1 /\ w_lookup[pid].comm = "claude"
IsOther(pid) == pid > 1 /\ w_lookup[pid] # NoProcess /\ w_lookup[pid].comm # "claude"

\* ChainPid(k) is the nearest claude process on the parent chain.
FirstMatchAt(k) ==
    /\ IsClaude(ChainPid(k))
    /\ \A j \in 0 .. (k - 1) : IsOther(ChainPid(j))

Hops == 0 .. Cardinality(WalkPids)

\* C25: the result is given by the nearest claude process on the parent
\* chain, start pid included: (its pid, its tty), or none when it is
\* detached; none when the chain has no claude process; and no process above
\* the first match is looked up.
C25_FirstMatchDecides ==
    /\ \A k \in Hops :
          FirstMatchAt(k) => w_inspected \subseteq {ChainPid(j) : j \in 0 .. k}
    /\ w_done =>
          /\ \A k \in Hops :
                FirstMatchAt(k) =>
                    w_result = IF w_lookup[ChainPid(k)].tty = NoTty
                               THEN None
                               ELSE <<ChainPid(k), Dev(w_lookup[ChainPid(k)].tty)>>
          /\ (\A k \in Hops : ~FirstMatchAt(k)) => w_result = None

\* A detached claude process two links above the start pid, with a claude
\* process on a TTY above it: the walk has returned none.
C25_Witness ==
    /\ w_done
    /\ w_start = 2
    /\ w_lookup[2].comm = "zsh" /\ w_lookup[2].ppid = 3
    /\ w_lookup[3] = [comm |-> "claude", ppid |-> 4, tty |-> NoTty]
    /\ w_lookup[4] = [comm |-> "claude", ppid |-> 1, tty |-> 0]
    /\ w_result = None
    /\ w_inspected = {2, 3}

\* A claude process on a TTY one link above the start pid.
C25_WitnessFound ==
    /\ w_done
    /\ w_start = 3
    /\ w_lookup[3].comm = "zsh" /\ w_lookup[3].ppid = 2
    /\ w_lookup[2] = [comm |-> "claude", ppid |-> 4, tty |-> 0]
    /\ w_result = <<2, Dev(0)>>

\* ------------------------------------------------- run_serve, two threads
\* The poll cycle is kept as its number: the sessions that cycle k builds
\* carry k, and cycles differ in how many sessions they find.
CycleSessions(k) == [i \in 1 .. (1 + (k % 2)) |-> [tty |-> Dev(i - 1), cycle |-> k]]

\* Line 40-42: DisplayResponse { sessions: Vec::new() }.
InitialSessions == <<>>

\* The cycle a list of sessions comes from (0: the initial list).
CycleOf(sessions) == IF sessions = <<>> THEN 0 ELSE sessions[1].cycle

\* What a client does with its connection: it reads the answer, it never
\* reads (a write to it blocks), or it has hung up (a write to it fails).
ClientModes == {"reads", "stalls", "gone"}

InitServe ==
    /\ StatusIdle
    /\ ResolveIdle
    /\ FsIdle
    /\ LogIdle
    /\ ProcIdle
    /\ DaemonIdle
    /\ DetermineIdle
    /\ ScanIdle
    /\ MergeIdle
    /\ WalkIdle
    /\ InstIdle
    /\ sv_phase = "Starting"
    /\ sv_error = "none"
    /\ sv_sock \in BOOLEAN
    /\ sv_mutex = "none"
    /\ sv_poll_pc = "poll"
    /\ sv_sessions = <<>>
    /\ sv_cycle = 0
    /\ sv_l_pc = "accept"
    /\ sv_resp = <<>>
    /\ sv_conn = 0
    /\ sv_conns = <<>>
    /\ sv_backlog = <<>>

ServeRest ==
    UNCHANGED <<fsVars, resolveVars, statusVars, logVars, procVars,
                determineVars, scanVars, mergeVars, walkVars, instVars>>

\* Lines 23-58: the stale socket is removed, the listener bound, the state
\* created and the listener thread spawned.
Start ==
    /\ sv_phase = "Starting"
    /\ sv_phase' = "Running"
    /\ sv_sock' = TRUE
    /\ UNCHANGED <<daemonVars, sv_error, sv_mutex, pollLoopVars, listenerVars, sv_conns, sv_backlog>>
    /\ ServeRest

\* The three `?` of run_serve, lines 32, 35 and 36.
StartupSteps == {"create_dir_all", "bind", "set_nonblocking"}

\* Lines 26-36: create_dir_all, bind or set_nonblocking fails and run_serve
\* returns the error.  The stale socket file is gone unless its removal
\* failed (`let _ =`, line 27); after a bind that succeeded the new socket
\* file is there.
StartFails ==
    /\ sv_phase = "Starting"
    /\ sv_phase' = "Failed"
    /\ \E step \in StartupSteps, removed \in BOOLEAN :
          /\ sv_error' = step
          /\ sv_sock' = IF step = "set_nonblocking" THEN TRUE ELSE (sv_sock /\ ~removed)
    /\ UNCHANGED <<daemonVars, sv_mutex, pollLoopVars, listenerVars, sv_conns, sv_backlog>>
    /\ ServeRest

\* A termination signal.  Nothing in the program installs a handler or
\* stores to RUNNING (line 19 is its only assignment), so the signal's
\* default action ends the process where it stands.
Signal ==
    /\ sv_phase \in {"Starting", "Running"}
    /\ sv_phase' = "Killed"
    /\ UNCHANGED <<daemonVars, sv_error, sv_sock, sv_mutex, pollLoopVars, listenerVars,
                   sv_conns, sv_backlog>>
    /\ ServeRest

\* PollSessions with a Result that run_serve passes on with `?`.
PollSessions_Propagates ==
    /\ sv_phase = "Running"
    /\ sv_poll_pc = "poll"
    /\ sv_cycle < MaxCycles
    /\ \/ /\ sv_cycle' = sv_cycle + 1
          /\ sv_sessions' = CycleSessions(sv_cycle + 1)
          /\ sv_poll_pc' = "lock"
          /\ UNCHANGED <<sv_phase, sv_error>>
       \/ /\ sv_phase' = "Failed"
          /\ sv_error' = "poll_sessions"
          /\ UNCHANGED <<sv_cycle, sv_sessions, sv_poll_pc>>
    /\ UNCHANGED <<daemonVars, sv_sock, sv_mutex, listenerVars,
                   sv_conns, sv_backlog>>
    /\ ServeRest

\* Line 66: poll_sessions(), off the lock.
PollSessions ==
    /\ sv_phase = "Running"
    /\ sv_poll_pc = "poll"
    /\ sv_cycle < MaxCycles
    /\ sv_cycle' = sv_cycle + 1
    /\ sv_sessions' = CycleSessions(sv_cycle + 1)
    /\ sv_poll_pc' = "lock"
    /\ UNCHANGED <<daemonVars, sv_phase, sv_error, sv_sock, sv_mutex, listenerVars,
                   sv_conns, sv_backlog>>
    /\ ServeRest

\* Line 68: state.lock().
PublishLock ==
    /\ sv_phase = "Running"
    /\ sv_poll_pc = "lock"
    /\ sv_mutex = "none"
    /\ sv_mutex' = "poll"
    /\ sv_poll_pc' = "assign"
    /\ UNCHANGED <<daemonVars, sv_phase, sv_error, sv_sock, sv_sessions, sv_cycle,
                   listenerVars, sv_conns, sv_backlog>>
    /\ ServeRest

\* PublishAssign without the block of lines 67-70: the guard lives on into
\* the sleep.
PublishAssign_KeepsLock ==
    /\ sv_phase = "Running"
    /\ sv_poll_pc = "assign"
    /\ snapshot' = sv_sessions
    /\ published' = TRUE
    /\ sv_poll_pc' = "sleep"
    /\ UNCHANGED <<sv_phase, sv_error, sv_sock, sv_mutex, sv_sessions, sv_cycle,
                   listenerVars, sv_conns, sv_backlog>>
    /\ ServeRest

\* Lines 69-70: locked.sessions = sessions, and the guard goes out of scope.
PublishAssign ==
    /\ sv_phase = "Running"
    /\ sv_poll_pc = "assign"
    /\ snapshot' = sv_sessions
    /\ published' = TRUE
    /\ sv_mutex' = "none"
    /\ sv_poll_pc' = "sleep"
    /\ UNCHANGED <<sv_phase, sv_error, sv_sock, sv_sessions, sv_cycle, listenerVars,
                   sv_conns, sv_backlog>>
    /\ ServeRest

\* Lines 72-77: the sleep of twenty times 100 ms.
PollSleep ==
    /\ sv_phase = "Running"
    /\ sv_poll_pc = "sleep"
    /\ sv_poll_pc' = "poll"
    /\ UNCHANGED <<daemonVars, sv_phase, sv_error, sv_sock, sv_mutex, sv_sessions, sv_cycle,
                   listenerVars, sv_conns, sv_backlog>>
    /\ ServeRest

\* A client connects to the socket; the connection waits in the backlog.
ClientConnect ==
    /\ sv_phase = "Running"
    /\ Len(sv_conns) < MaxConns
    /\ \E mode \in ClientModes :
          sv_conns' = Append(sv_conns, [st |-> "queued", mode |-> mode,
                                        data |-> <<>>, accepted_at |-> 0])
    /\ sv_backlog' = Append(sv_backlog, Len(sv_conns) + 1)
    /\ UNCHANGED <<daemonVars, sv_phase, sv_error, sv_sock, sv_mutex, pollLoopVars, listenerVars>>
    /\ ServeRest

\* The client end of a connection is closed, before the daemon wrote to it or
\* between two writes: from then on a write to it fails.
ClientHangUp ==
    /\ sv_phase = "Running"
    /\ \E c \in DOMAIN sv_conns :
          /\ sv_conns[c].mode # "gone"
          /\ sv_conns[c].st # "closed"
          /\ sv_conns' = [sv_conns EXCEPT ![c] = [@ EXCEPT !.mode = "gone"]]
    /\ UNCHANGED <<daemonVars, sv_phase, sv_error, sv_sock, sv_mutex, pollLoopVars, listenerVars,
                   sv_backlog>>
    /\ ServeRest

\* Lines 46-47: listener.accept() returns a stream.  (On WouldBlock and on
\* an error the thread sleeps and tries again, lines 54-59.)
Accept ==
    /\ sv_phase = "Running"
    /\ sv_l_pc = "accept"
    /\ sv_backlog # <<>>
    /\ sv_conn' = Head(sv_backlog)
    /\ sv_backlog' = Tail(sv_backlog)
    /\ sv_conns' = [sv_conns EXCEPT ![Head(sv_backlog)] =
                       [@ EXCEPT !.st = "accepted", !.accepted_at = CycleOf(snapshot)]]
    /\ sv_l_pc' = "lock"
    /\ UNCHANGED <<daemonVars, sv_phase, sv_error, sv_sock, sv_mutex, pollLoopVars, sv_resp>>
    /\ ServeRest

\* HandlerLock going on without the Mutex.
HandlerLock_NoMutex ==
    /\ sv_phase = "Running"
    /\ sv_l_pc = "lock"
    /\ sv_resp' = <<>>
    /\ sv_l_pc' = "copy"
    /\ UNCHANGED <<daemonVars, sv_phase, sv_error, sv_sock, sv_mutex, pollLoopVars, sv_conn,
                   sv_conns, sv_backlog>>
    /\ ServeRest

\* HandlerLock with the resp of the connection before kept as the buffer.
HandlerLock_KeepsResp ==
    /\ sv_phase = "Running"
    /\ sv_l_pc = "lock"
    /\ sv_mutex = "none"
    /\ sv_mutex' = "listener"
    /\ sv_l_pc' = "copy"
    /\ UNCHANGED <<daemonVars, sv_phase, sv_error, sv_sock, pollLoopVars, sv_resp, sv_conn,
                   sv_conns, sv_backlog>>
    /\ ServeRest

\* Line 48: state_clone.lock(), then the clone starts with no element.
HandlerLock ==
    /\ sv_phase = "Running"
    /\ sv_l_pc = "lock"
    /\ sv_mutex = "none"
    /\ sv_mutex' = "listener"
    /\ sv_resp' = <<>>
    /\ sv_l_pc' = "copy"
    /\ UNCHANGED <<daemonVars, sv_phase, sv_error, sv_sock, pollLoopVars, sv_conn,
                   sv_conns, sv_backlog>>
    /\ ServeRest

\* Line 48: .clone() copies the sessions one after the other.
HandlerCopy ==
    /\ sv_phase = "Running"
    /\ sv_l_pc = "copy"
    /\ Len(sv_resp) < Len(snapshot)
    /\ sv_resp' = Append(sv_resp, snapshot[Len(sv_resp) + 1])
    /\ UNCHANGED <<daemonVars, sv_phase, sv_error, sv_sock, sv_mutex, pollLoopVars, sv_l_pc,
                   sv_conn, sv_conns, sv_backlog>>
    /\ ServeRest

\* CopyDone with the guard kept until the stream is dropped.
CopyDone_KeepsLock ==
    /\ sv_phase = "Running"
    /\ sv_l_pc = "copy"
    /\ Len(sv_resp) >= Len(snapshot)
    /\ sv_l_pc' = "write"
    /\ UNCHANGED <<daemonVars, sv_phase, sv_error, sv_sock, sv_mutex, pollLoopVars, sv_resp,
                   sv_conn, sv_conns, sv_backlog>>
    /\ ServeRest

\* Line 48: the clone is complete and the guard, a temporary, is dropped at
\* the end of the statement.
CopyDone ==
    /\ sv_phase = "Running"
    /\ sv_l_pc = "copy"
    /\ Len(sv_resp) >= Len(snapshot)
    /\ sv_mutex' = "none"
    /\ sv_l_pc' = "write"
    /\ UNCHANGED <<daemonVars, sv_phase, sv_error, sv_sock, pollLoopVars, sv_resp,
                   sv_conn, sv_conns, sv_backlog>>
    /\ ServeRest

\* What the client has received after a write of bytes: a client that has
\* hung up receives nothing and the error is dropped (`let _ =`).
Received(conn, bytes) ==
    IF conn.mode = "gone" THEN conn.data ELSE Append(conn.data, bytes)

\* WriteJson with the result of write_all unwrapped: the thread panics on a
\* failed write.
WriteJson_Unwraps ==
    /\ sv_phase = "Running"
    /\ sv_l_pc = "write"
    /\ sv_conns[sv_conn].mode # "stalls"
    /\ sv_conns' = [sv_conns EXCEPT ![sv_conn] =
                       [@ EXCEPT !.data = Received(sv_conns[sv_conn], <<"json", sv_resp>>)]]
    /\ sv_l_pc' = IF sv_conns[sv_conn].mode = "gone" THEN "panicked" ELSE "newline"
    /\ UNCHANGED <<daemonVars, sv_phase, sv_error, sv_sock, sv_mutex, pollLoopVars, sv_resp,
                   sv_conn, sv_backlog>>
    /\ ServeRest

\* Lines 49-50: to_string and write_all(json); it blocks while the client
\* does not read.
WriteJson ==
    /\ sv_phase = "Running"
    /\ sv_l_pc = "write"
    /\ sv_conns[sv_conn].mode # "stalls"
    /\ sv_conns' = [sv_conns EXCEPT ![sv_conn] =
                       [@ EXCEPT !.data = Received(sv_conns[sv_conn], <<"json", sv_resp>>)]]
    /\ sv_l_pc' = "newline"
    /\ UNCHANGED <<daemonVars, sv_phase, sv_error, sv_sock, sv_mutex, pollLoopVars, sv_resp,
                   sv_conn, sv_backlog>>
    /\ ServeRest

\* Line 51: write_all(b"\n").
WriteNewline ==
    /\ sv_phase = "Running"
    /\ sv_l_pc = "newline"
    /\ sv_conns' = [sv_conns EXCEPT ![sv_conn] =
                       [@ EXCEPT !.data = Received(sv_conns[sv_conn], <<"newline", <<>> >>)]]
    /\ sv_l_pc' = "close"
    /\ UNCHANGED <<daemonVars, sv_phase, sv_error, sv_sock, sv_mutex, pollLoopVars, sv_resp,
                   sv_conn, sv_backlog>>
    /\ ServeRest

\* Close with the stream kept and answered again.
Close_Again ==
    /\ sv_phase = "Running"
    /\ sv_l_pc = "close"
    /\ sv_l_pc' = "lock"
    /\ UNCHANGED <<daemonVars, sv_phase, sv_error, sv_sock, sv_mutex, pollLoopVars, sv_resp,
                   sv_conn, sv_conns, sv_backlog>>
    /\ ServeRest

\* Lines 52-53: flush, and stream is dropped at the end of the match arm.
Close ==
    /\ sv_phase = "Running"
    /\ sv_l_pc = "close"
    /\ sv_conns' = [sv_conns EXCEPT ![sv_conn] = [@ EXCEPT !.st = "closed"]]
    /\ sv_l_pc' = "accept"
    /\ UNCHANGED <<daemonVars, sv_phase, sv_error, sv_sock, sv_mutex, pollLoopVars, sv_resp,
                   sv_conn, sv_backlog>>
    /\ ServeRest

PollLoop == PollSessions \/ PublishLock \/ PublishAssign \/ PollSleep

NextServe ==
    \/ Start
    \/ StartFails
    \/ Signal
    \/ PollSessions
    \/ PublishLock
    \/ PublishAssign
    \/ PollSleep
    \/ ClientConnect
    \/ ClientHangUp
    \/ Accept
    \/ HandlerLock
    \/ HandlerCopy
    \/ CopyDone
    \/ WriteJson
    \/ WriteNewline
    \/ Close

SpecServe == InitServe /\ [][NextServe]_vars

\* Both threads are scheduled: a step of the poll loop, and a step of the
\* handler that waits for no client, is taken when it stays possible.
SpecServeFair ==
    /\ SpecServe
    /\ WF_vars(Start \/ StartFails)
    /\ WF_vars(PollLoop)
    /\ WF_vars(HandlerLock \/ HandlerCopy \/ CopyDone)

\* ----------------------------------------------------- claims, SpecServe
\* The session lists that are the whole result of one poll cycle, and the
\* initial empty list.
WholeSnapshots == {InitialSessions} \cup {CycleSessions(k) : k \in 1 .. MaxCycles}

\* The snapshots that connection c has received.
JsonOf(c) ==
    {sv_conns[c].data[i][2] :
        i \in {j \in DOMAIN sv_conns[c].data : sv_conns[c].data[j][1] = "json"}}

\* C26: every snapshot a client receives is the whole session list of one
\* poll cycle or the initial empty list, under every interleaving of the
\* two threads; the shared snapshot changes only by the poll loop assigning
\* its complete new list while it holds the lock.
C26_SnapshotNeverTorn ==
    [][/\ snapshot' # snapshot
            => /\ sv_poll_pc = "assign"
               /\ sv_mutex = "poll"
               /\ snapshot' = sv_sessions
               /\ snapshot' \in WholeSnapshots
       /\ \A c \in DOMAIN sv_conns' :
             \A i \in DOMAIN sv_conns'[c].data :
                 sv_conns'[c].data[i][1] = "json"
                    => sv_conns'[c].data[i][2] \in WholeSnapshots
      ]_vars

\* The handler is half way through its copy of the two sessions of cycle 1
\* while the poll loop waits for the lock with the list of cycle 2.
C26_Witness ==
    /\ sv_l_pc = "copy"
    /\ sv_mutex = "listener"
    /\ Len(snapshot) = 2
    /\ Len(sv_resp) = 1
    /\ sv_poll_pc = "lock"
    /\ sv_sessions = CycleSessions(2)

\* C27: a client whose connection was accepted after cycle k was published
\* never receives the snapshot of a cycle before k.
C27_NoOlderThanAtAccept ==
    \A c \in DOMAIN sv_conns :
        \A sessions \in JsonOf(c) : CycleOf(sessions) >= sv_conns[c].accepted_at

\* A connection accepted after cycle 1 was published has received cycle 1,
\* and cycle 2 has been published since.
C27_Witness ==
    \E c \in DOMAIN sv_conns :
        /\ sv_conns[c].st = "closed"
        /\ sv_conns[c].accepted_at = 1
        /\ JsonOf(c) = {CycleSessions(1)}
        /\ CycleOf(snapshot) = 2

\* What a connection may have received: nothing, one snapshot, or one
\* snapshot and the newline after it.
OneAnswer(conn) ==
    /\ Len(conn.data) <= 2
    /\ Len(conn.data) >= 1 => conn.data[1][1] = "json"
    /\ Len(conn.data) = 2 => conn.data[2][1] = "newline"
    /\ (conn.st = "closed" /\ conn.mode = "reads") => Len(conn.data) = 2
    /\ conn.st = "queued" => conn.data = <<>>

\* C28: an accepted connection gets one exchange: one snapshot and a
\* newline are written, the connection is closed and never written again,
\* and the handler takes the snapshot as soon as the lock is free, without
\* waiting for a newer one.
C28_OneExchange ==
    [][/\ \A c \in DOMAIN sv_conns' : OneAnswer(sv_conns'[c])
       /\ \A c \in DOMAIN sv_conns :
             sv_conns[c].st = "closed" => sv_conns'[c] = sv_conns[c]
       /\ (sv_phase = "Running" /\ sv_l_pc = "lock" /\ sv_mutex = "none")
             => ENABLED HandlerLock
       /\ (sv_phase = "Running" /\ sv_l_pc = "copy")
             => ENABLED (HandlerCopy \/ CopyDone)
      ]_vars

\* Two connections answered and closed, each with one snapshot and a
\* newline, the first with the snapshot that was there when it was accepted.
C28_Witness ==
    /\ Len(sv_conns) = 2
    /\ \A c \in DOMAIN sv_conns :
          /\ sv_conns[c].st = "closed"
          /\ sv_conns[c].mode = "reads"
          /\ Len(sv_conns[c].data) = 2
    /\ JsonOf(1) = {CycleSessions(1)}
    /\ sv_conns[1].accepted_at = 1
    /\ sv_l_pc = "accept"

\* C29: under fair scheduling of the two threads the poll loop completes
\* and publishes its cycles, however many clients connect and also while the
\* handler is blocked in a write to a client that does not read.
C29_PollLoopNeverBlocked ==
    <>(sv_phase \in {"Failed", "Killed"} \/ CycleOf(snapshot) = MaxCycles)

\* The handler has been blocked in its write since before the first cycle
\* was published, and every cycle has been published.
C29_Witness ==
    /\ sv_phase = "Running"
    /\ sv_l_pc = "write"
    /\ sv_conns[sv_conn].mode = "stalls"
    /\ sv_conns[sv_conn].accepted_at = 0
    /\ sv_resp = InitialSessions
    /\ CycleOf(snapshot) = MaxCycles

\* C30 as stated: the life of the daemon goes Starting, Running, Stopping,
\* Stopped in this order (or ends with the error of a failed start); a
\* stopped daemon has removed its socket file.
C30_ShutdownSequence ==
    [][/\ sv_phase' # sv_phase
            => <<sv_phase, sv_phase'>> \in {<<"Starting", "Running">>,
                                            <<"Starting", "Failed">>,
                                            <<"Running", "Stopping">>,
                                            <<"Stopping", "Stopped">>}
       /\ sv_phase' = "Stopped" => ~sv_sock'
      ]_vars

\* The position of the handler after a step from pc.
AfterWrite(pc) ==
    CASE pc = "write" -> "newline"
      [] pc = "newline" -> "close"
      [] pc = "close" -> "accept"

\* C31: a write to a client that has hung up, before or during the answer,
\* does not end the daemon and does not change the published snapshot: the
\* handler goes on to its next statement, the connection is dropped, the
\* accept loop is back at accept() and the poll loop is where it was.
C31_ClientFailureIsLocal ==
    [][/\ (/\ sv_phase = "Running"
            /\ sv_l_pc \in {"write", "newline", "close"}
            /\ sv_conns[sv_conn].mode = "gone")
           => /\ ENABLED (WriteJson \/ WriteNewline \/ Close)
              /\ sv_l_pc' # sv_l_pc
                    => /\ sv_l_pc' = AfterWrite(sv_l_pc)
                       /\ sv_phase' = "Running"
                       /\ snapshot' = snapshot
                       /\ sv_mutex' = sv_mutex
                       /\ pollLoopVars' = pollLoopVars
                       /\ sv_conns'[sv_conn].data = sv_conns[sv_conn].data
                       /\ sv_l_pc' = "accept" => sv_conns'[sv_conn].st = "closed"
       /\ sv_l_pc' \in {"accept", "lock", "copy", "write", "newline", "close"}
      ]_vars

\* The first client hung up after the snapshot and before the newline; its
\* connection was dropped, the second client was served in full afterwards
\* and the poll loop has published its second cycle.
C31_Witness ==
    /\ sv_phase = "Running"
    /\ Len(sv_conns) = 2
    /\ sv_conns[1].mode = "gone"
    /\ sv_conns[1].st = "closed"
    /\ Len(sv_conns[1].data) = 1
    /\ sv_conns[2].mode = "reads"
    /\ sv_conns[2].st = "closed"
    /\ Len(sv_conns[2].data) = 2
    /\ CycleOf(snapshot) = 2

C32_WitnessRunning ==
    /\ sv_phase = "Running"
    /\ sv_error = "none"
    /\ CycleOf(snapshot) = MaxCycles
    /\ \E c \in DOMAIN sv_conns : sv_conns[c].mode = "gone" /\ sv_conns[c].st = "closed"

\* C34: no thread holds the lock of the snapshot across a blocking call: the
\* poll loop holds it only for its assignment, not while it polls or
\* sleeps, and the handler holds it only while it copies, not while it
\* accepts, serializes, writes or flushes.
C34_NoLockAcrossIO ==
    /\ sv_mutex \in {"none", "poll", "listener"}
    /\ sv_mutex = "poll" <=> sv_poll_pc = "assign"
    /\ sv_mutex = "listener" <=> sv_l_pc = "copy"
    /\ sv_poll_pc \in {"poll", "lock", "sleep"} => sv_mutex # "poll"
    /\ sv_l_pc \in {"accept", "lock", "write", "newline", "close"} => sv_mutex # "listener"

\* The handler is blocked in its write to a client that does not read while
\* the poll loop holds the lock for its assignment.
C34_Witness ==
    /\ sv_phase = "Running"
    /\ sv_l_pc = "write"
    /\ sv_conns[sv_conn].mode = "stalls"
    /\ sv_mutex = "poll"
    /\ sv_poll_pc = "assign"

\* C35 as stated: the daemon is stopped through the flag that both loops
\* read: the poll loop ends at one of its reads of the flag, lines 65 and
\* 73, with the cycle in progress published and the lock free, and the
\* accept loop ends at its read, line 45, with no connection half answered.
C35_CooperativeCancellation ==
    [][(sv_phase = "Running" /\ sv_phase' # "Running")
          => /\ sv_poll_pc \in {"poll", "sleep"}
             /\ sv_l_pc = "accept"
             /\ sv_mutex = "none"
      ]_vars

\* ------------------------------------------- hook.rs, the hook and the daemon
\* Lines 34-40 of run_hook: the directory the hook writes its state file to.
HookStateDir(cwd) ==
    IF cwd = <<>> THEN <<"~/.claude/swiftbar">> ELSE cwd \o <<"/.swiftbar">>

\* The state directories of the hook and of the daemon.
AllStateDirs == StateDirs \cup {HookStateDir(c) : c \in Cwds \cup {NoCwd}}

\* Two claude sessions, each on its own TTY; lsof knows the working
\* directory of a session or does not; every transcript exists.
InitHook ==
    /\ claims = [d \in AllStateDirs |-> [t \in ShortTtys |-> AbsentClaim]]
    /\ state_dirs = {}
    /\ files = [p \in Paths |-> IF p \in LogPaths THEN 1 ELSE 0]
    /\ pgrep_out = Pids
    /\ ps_tty = [p \in Pids |-> (p - 2) % NumTtys]
    /\ lsof_cwd \in [Pids -> Cwds \cup {NoCwd}]
    /\ iterm_out = <<>>
    /\ lsof_out = <<>>
    /\ r_tty \in ShortTtys
    /\ r_active = ShortTtys
    /\ r_result = EmptyPath
    /\ r_done = FALSE
    /\ StatusIdle
    /\ LogIdle
    /\ DaemonIdle
    /\ DetermineIdle
    /\ ScanIdle
    /\ MergeIdle
    /\ WalkIdle
    /\ ServeIdle

\* hook.rs lines 16-54: the hook of the session of process pid, whose
\* transcript is transcript_path: the claude ancestor and its TTY are found
\* (lines 25-28), the cwd is the one lsof reports for it (lines 57-66), and
\* the state file of the TTY is written (lines 42-51).
run_hook ==
    \E pid \in Pids, name \in Names :
        LET tty == get_pid_tty(pid)
            tty_short == IF tty = None THEN NoTty ELSE TrimDev(tty)
            cwd == get_pid_cwd(pid)
            state_dir == HookStateDir(cwd)
            transcript_path == [dir |-> ProjectDir(cwd), name |-> name]
        IN /\ tty_short # NoTty
           /\ claims[state_dir][tty_short] = AbsentClaim
           /\ state_dirs' = state_dirs \cup {state_dir}
           /\ claims' = [claims EXCEPT ![state_dir][tty_short] = OkClaim(transcript_path)]
           /\ UNCHANGED <<files, resolveVars, statusVars, logVars, procVars, daemonVars>>
           /\ UNCHANGED <<determineVars, scanVars, mergeVars, walkVars, serveVars>>

\* serve.rs lines 105-120: the daemon resolves the transcript of the session
\* of process pid.
ResolveSession ==
    \E pid \in Pids :
        LET tty == get_pid_tty(pid)
            tty_short == IF tty = None THEN NoTty ELSE TrimDev(tty)
            cwd == get_pid_cwd(pid)
        IN /\ tty_short # NoTty
           /\ r_tty' = tty_short
           /\ \E listing \in Listings(ProjectDir(cwd)) :
                 r_result' = resolve_transcript(tty_short, find_state_dir(cwd),
                                                ProjectDir(cwd), r_active, listing)
           /\ r_done' = TRUE
           /\ UNCHANGED <<fsVars, r_active, statusVars, logVars, procVars, daemonVars>>
           /\ UNCHANGED <<determineVars, scanVars, mergeVars, walkVars, serveVars>>

NextHook == run_hook \/ ResolveSession

SpecHook == InitHook /\ [][NextHook]_vars

\* ------------------------------------------------------ claims, SpecHook
\* The state file the hook wrote for the session of process pid.
HookClaim(pid) == claims[HookStateDir(get_pid_cwd(pid))][TrimDev(get_pid_tty(pid))]

\* C33 as stated: the directory in which the daemon looks for the state
\* file of a session is the directory into which the hook wrote it, with
\* the working directory known or unknown, so the daemon finds every claim
\* the hook has written.
C33_HookAndDaemonAgree ==
    \A pid \in Pids :
        HookClaim(pid) # AbsentClaim
           => StateFile(find_state_dir(get_pid_cwd(pid)), TrimDev(get_pid_tty(pid)))
                 = HookClaim(pid)

\* ------------------------------------- parse_transcript_tail, on long logs
\* An assistant entry whose text fills the 64 KiB that read_tail reads.
ALong == Entry("assistant", TRUE, <<Text>>, TailBytes)

TailLines == {AEnter, AExit, ARead, UResult, UText, ALong}

InitTail ==
    /\ StatusIdle
    /\ ResolveIdle
    /\ FsIdle
    /\ LogIdle
    /\ ProcIdle
    /\ DaemonIdle
    /\ DetermineIdle
    /\ MergeIdle
    /\ WalkIdle
    /\ ServeIdle
    /\ sc_content \in UNION {[1 .. n -> TailLines] : n \in 0 .. MaxLines}
    /\ sc_line = 1
    /\ sc_tail = TailStart

\* Lines 13-24 on a file that holds sc_content: the last 64 KiB are read and
\* scanned.
ParseTail ==
    /\ sc_line = 1
    /\ sc_tail' = parse_transcript_content(LinesWithin(sc_content, TailBytes))
    /\ sc_line' = Len(sc_content) + 1
    /\ UNCHANGED <<fsVars, resolveVars, statusVars, logVars, procVars, daemonVars>>
    /\ UNCHANGED <<determineVars, sc_content, mergeVars, walkVars, serveVars>>

NextTail == ParseTail

SpecTail == InitTail /\ [][NextTail]_vars

\* ------------------------------------------------------ claims, SpecTail
\* The three values parse_transcript_tail returns.
Returned(tail) == <<tail.last_role, tail.pending, tail.in_plan_mode>>

\* C36 as stated: the tail state derived from the last 64 KiB of a log is
\* the tail state of the scan of the whole log, from its first entry.
C36_TailEqualsWholeScan ==
    sc_line > 1 => Returned(sc_tail) = Returned(ParseFrom(TailStart, sc_content))

\* ------------------------------ determine_status and a log that is written
\* The transcript of the session, and what the monitored program appends.
ObservedPath == [dir |-> ProjectDir(CwdA), name |-> 1]
Appended == {ARead, UResult}

InitObserve ==
    /\ StatusIdle
    /\ ResolveIdle
    /\ ProcIdle
    /\ DaemonIdle
    /\ ScanIdle
    /\ MergeIdle
    /\ WalkIdle
    /\ ServeIdle
    /\ claims = NoClaims
    /\ state_dirs = {}
    /\ files = [p \in Paths |-> IF p = ObservedPath THEN 1 ELSE 0]
    /\ \E entry \in Appended :
          logs = [p \in Paths |-> IF p = ObservedPath THEN <<entry>> ELSE <<>>]
    /\ now = 1
    /\ d_last = NoCall
    /\ d_prev = NoCall
    /\ d_advances = 0
    /\ o_pc = "age"
    /\ o_mtime = 0
    /\ o_age = NoAge
    /\ o_content = <<>>
    /\ o_hist = <<[mtime |-> files[ObservedPath], content |-> logs[ObservedPath]]>>
    /\ o_at = 0

ObserveRest ==
    UNCHANGED <<resolveVars, statusVars, procVars, daemonVars, scanVars, mergeVars,
                walkVars, serveVars>>

\* The monitored program appends an entry to its log; the file's mtime
\* becomes the time of the write.
AppendEntry ==
    /\ o_pc \in {"age", "tail"}
    /\ Len(logs[ObservedPath]) < MaxLines
    /\ \E entry \in Appended :
          logs' = [logs EXCEPT ![ObservedPath] = Append(@, entry)]
    /\ files' = [files EXCEPT ![ObservedPath] = now]
    /\ o_hist' = Append(o_hist, [mtime |-> now, content |-> logs'[ObservedPath]])
    /\ UNCHANGED <<claims, state_dirs, now, d_last, d_prev, d_advances,
                   o_pc, o_mtime, o_age, o_content, o_at>>
    /\ ObserveRest

\* Time passes.
Elapse ==
    /\ o_pc \in {"age", "tail"}
    /\ d_advances < MaxAdvances
    /\ \E a \in Advances : now' = now + a
    /\ d_advances' = d_advances + 1
    /\ UNCHANGED <<fsVars, logs, d_last, d_prev, observeVars>>
    /\ ObserveRest

\* Lines 137-140: get_mtime_age(transcript).
ReadAge ==
    /\ o_pc = "age"
    /\ o_mtime' = files[ObservedPath]
    /\ o_age' = get_mtime_age(ObservedPath)
    /\ o_at' = Len(o_hist)
    /\ o_pc' = "tail"
    /\ UNCHANGED <<fsVars, logVars, d_last, d_prev, d_advances, o_content, o_hist>>
    /\ ObserveRest

\* ReadTail with the content taken from a copy made when the file was first
\* seen.
ReadTail_Cached ==
    /\ o_pc = "tail"
    /\ o_content' = LinesWithin(o_hist[1].content, TailBytes)
    /\ LET tail == parse_transcript_content(o_content')
       IN d_last' = Call(ObservedPath,
                         <<tail.last_role, tail.pending, tail.in_plan_mode>>,
                         o_age,
                         StatusDecision(tail.last_role, tail.pending,
                                        tail.in_plan_mode, o_age))
    /\ d_prev' = d_last
    /\ o_pc' = "done"
    /\ UNCHANGED <<fsVars, logVars, d_advances, o_mtime, o_age, o_hist, o_at>>
    /\ ObserveRest

\* Lines 142-181: parse_transcript_tail(transcript) and the decision.
ReadTail ==
    /\ o_pc = "tail"
    /\ o_content' = read_tail(ObservedPath, TailBytes)
    /\ LET tail == parse_transcript_content(o_content')
       IN d_last' = Call(ObservedPath,
                         <<tail.last_role, tail.pending, tail.in_plan_mode>>,
                         o_age,
                         StatusDecision(tail.last_role, tail.pending,
                                        tail.in_plan_mode, o_age))
    /\ d_prev' = d_last
    /\ o_pc' = "done"
    /\ UNCHANGED <<fsVars, logVars, d_advances, o_mtime, o_age, o_hist, o_at>>
    /\ ObserveRest

NextObserve == AppendEntry \/ Elapse \/ ReadAge \/ ReadTail

SpecObserve == InitObserve /\ [][NextObserve]_vars

\* --------------------------------------------------- claims, SpecObserve
\* C37 as stated: the file had, at one instant, both the mtime and the
\* content from which the status was computed.
C37_ConsistentObservation ==
    o_pc = "done"
       => \E k \in DOMAIN o_hist :
             /\ o_hist[k].mtime = o_mtime
             /\ LinesWithin(o_hist[k].content, TailBytes) = o_content

\* C37, amended: the mtime is read first and the content second: the mtime
\* is the one the file had at some instant, the content is the one it had
\* at the same or a later instant, the same when the log was not written
\* between the two reads, and the status is the decision for that content
\* and the age of that mtime.
C37_ContentNotOlderThanMtime ==
    o_pc = "done"
       => /\ o_at \in DOMAIN o_hist
          /\ o_at <= Len(o_hist)
          /\ o_hist[o_at].mtime = o_mtime
          /\ LinesWithin(o_hist[Len(o_hist)].content, TailBytes) = o_content
          /\ d_last.age = o_age
          /\ d_last.age # NoAge
          /\ d_last.tail = Returned(parse_transcript_content(o_content))
          /\ d_last.status = StatusDecision(d_last.tail[1], d_last.tail[2],
                                            d_last.tail[3], o_age)

\* The log was last written 120 s before its mtime was read, and a tool
\* call was appended before its content was read: the status is Idle, the
\* status of a tool call that has waited for 120 s.
C37_Witness ==
    /\ o_pc = "done"
    /\ o_at < Len(o_hist)
    /\ o_age = Ticks(PendingTimeoutSecs)
    /\ files[ObservedPath] = now
    /\ d_last.tail = <<"assistant", TRUE, FALSE>>
    /\ d_last.status = "Idle"

\* ------------------------- determine_status and determine_status_with_age
\* transcript.rs lines 184-227, the decision of the unit tests: content is
\* the whole text handed in (the empty text for None), age the age handed
\* in (NoAge for None).
determine_status_with_age(transcript_content, age) ==
    IF age = NoAge
    THEN "Active"
    ELSE LET tail == IF transcript_content # <<>>
                     THEN parse_transcript_content(transcript_content)
                     ELSE TailStart
         IN IF tail.pending /\ age >= Ticks(3)
            THEN (IF tail.in_plan_mode
                  THEN "Pending"
                  ELSE IF age < Ticks(120) THEN "Pending" ELSE "Idle")
            ELSE IF age < Ticks(10)
                 THEN "Active"
                 ELSE IF tail.last_role = "user"
                      THEN (IF age < Ticks(120) THEN "Active" ELSE "Idle")
                      ELSE IF tail.in_plan_mode THEN "Pending" ELSE "Idle"

\* The ages on both sides of each threshold of the decision.
TestedAges == {0, Ticks(3), Ticks(10), Ticks(120)}

\* A file with some content, written some time ago.
InitTested ==
    /\ StatusIdle
    /\ ResolveIdle
    /\ ProcIdle
    /\ DaemonIdle
    /\ DetermineIdle
    /\ ScanIdle
    /\ MergeIdle
    /\ WalkIdle
    /\ ServeIdle
    /\ claims = NoClaims
    /\ state_dirs = {}
    /\ files = [p \in Paths |-> IF p = ObservedPath THEN 1 ELSE 0]
    /\ \E content \in UNION {[1 .. n -> TailLines] : n \in 0 .. MaxLines} :
          logs = [p \in Paths |-> IF p = ObservedPath THEN content ELSE <<>>]
    /\ \E age \in TestedAges : now = 1 + age

\* determine_status on the file, and determine_status_with_age on its
\* content and its age.
RunBoth ==
    /\ d_last = NoCall
    /\ d_last' = Call(ObservedPath, TailOf(ObservedPath), AgeOf(ObservedPath),
                      determine_status(ObservedPath))
    /\ d_prev' = Call(ObservedPath,
                      Returned(parse_transcript_content(logs[ObservedPath])),
                      get_mtime_age(ObservedPath),
                      determine_status_with_age(logs[ObservedPath],
                                                get_mtime_age(ObservedPath)))
    /\ UNCHANGED <<fsVars, resolveVars, statusVars, logVars, procVars, daemonVars>>
    /\ UNCHANGED <<d_advances, observeVars, scanVars, mergeVars, walkVars, serveVars>>

NextTested == RunBoth

SpecTested == InitTested /\ [][NextTested]_vars

\* ---------------------------------------------------- claims, SpecTested
\* C38 as stated: determine_status on a file returns what
\* determine_status_with_age returns on the content and the age of the file.
C38_TestedIsProduction ==
    d_last # NoCall => d_last.status = d_prev.status

\* ----------------------------------- the polls of a log that is not written
\* The time between two polls of the session: a tick, the 2 s of the poll
\* loop (serve.rs lines 72-77), a minute.
PollGaps == {1, Ticks(2), Ticks(60)}

\* A log that was just written, with any tail state.
InitAging ==
    /\ st_role \in {"none", "user", "assistant"}
    /\ st_pending \in BOOLEAN
    /\ st_plan \in BOOLEAN
    /\ st_age = 0
    /\ st_status = "none"
    /\ st_done = FALSE
    /\ ResolveIdle
    /\ FsIdle
    /\ LogIdle
    /\ ProcIdle
    /\ DaemonIdle
    /\ DetermineIdle
    /\ ScanIdle
    /\ MergeIdle
    /\ WalkIdle
    /\ ServeIdle

\* serve.rs lines 65-78 and transcript.rs lines 137-181: the next poll of
\* the session.  The log was not written, so its tail state is the same and
\* its age has grown by the time since the poll before.
PollAgain ==
    /\ \E gap \in PollGaps :
          /\ st_age + gap <= Ticks(MaxAgeSecs)
          /\ st_age' = st_age + gap
    /\ st_status' = StatusDecision(st_role, st_pending, st_plan, st_age')
    /\ st_done' = TRUE
    /\ UNCHANGED <<fsVars, resolveVars, logVars, procVars, daemonVars>>
    /\ UNCHANGED <<st_role, st_pending, st_plan>>
    /\ UNCHANGED <<determineVars, scanVars, mergeVars, walkVars, serveVars>>

NextAging == PollAgain

SpecAging == InitAging /\ [][NextAging]_vars

\* The poll loop goes on polling.
SpecAgingFair == SpecAging /\ WF_vars(PollAgain)

\* ----------------------------------------------------- claims, SpecAging
\* C39: over the polls of a log that is not written, no poll at an age of
\* 120 s or more reports Active, a poll after one that reported Idle
\* reports Idle, and a session outside review mode comes to report Idle and
\* goes on reporting it.
C39_MonotoneTowardRest ==
    /\ [](st_status = "Active" => st_age < Ticks(120))
    /\ [][st_status = "Idle" => st_status' = "Idle"]_vars
    /\ (~st_plan => <>[](st_status = "Idle"))

\* A tool call outside review mode that has waited for 120 s: the poll
\* reports Idle.
C39_Witness ==
    /\ st_done
    /\ st_pending
    /\ ~st_plan
    /\ st_age = Ticks(120)
    /\ st_status = "Idle"

\* ------------------------------------------- run_serve, two daemons
\* Two daemons of the same user, hence with the same sock_path, each
\* started at any time; the file at sock_path may be the socket that a
\* daemon which was killed has left (the third value of its owner stands
\* for a daemon of an earlier run).
Earlier == Cardinality(Daemons) + 1

InitTwo ==
    /\ StatusIdle
    /\ ResolveIdle
    /\ FsIdle
    /\ LogIdle
    /\ ProcIdle
    /\ DaemonIdle
    /\ DetermineIdle
    /\ ScanIdle
    /\ MergeIdle
    /\ WalkIdle
    /\ sv_phase = "NotStarted"
    /\ sv_error = "none"
    /\ sv_sock = FALSE
    /\ sv_mutex = "none"
    /\ sv_poll_pc = "poll"
    /\ sv_sessions = <<>>
    /\ sv_cycle = 0
    /\ sv_l_pc = "accept"
    /\ sv_resp = <<>>
    /\ sv_conn = 0
    /\ sv_conns = <<>>
    /\ sv_backlog = <<>>
    /\ in_pc = [i \in Daemons |-> "not started"]
    /\ in_exists = [i \in Daemons |-> FALSE]
    /\ sock_owner \in {0, Earlier}

TwoRest ==
    UNCHANGED <<fsVars, resolveVars, statusVars, logVars, procVars, daemonVars,
                determineVars, scanVars, mergeVars, walkVars,
                sv_phase, sv_error, sv_sock, sv_mutex, pollLoopVars, listenerVars,
                sv_conns, sv_backlog>>

\* Daemon i is started: run_serve is entered.
Launch(i) ==
    /\ in_pc[i] = "not started"
    /\ in_pc' = [in_pc EXCEPT ![i] = "exists"]
    /\ UNCHANGED <<in_exists, sock_owner>>
    /\ TwoRest

\* Line 26: sock_path.exists().
Exists(i) ==
    /\ in_pc[i] = "exists"
    /\ in_exists' = [in_exists EXCEPT ![i] = (sock_owner # 0)]
    /\ in_pc' = [in_pc EXCEPT ![i] = IF sock_owner # 0 THEN "remove" ELSE "bind"]
    /\ UNCHANGED sock_owner
    /\ TwoRest

\* Line 27: let _ = remove_file(&sock_path): the file at the path is
\* removed, whichever daemon's socket it is (or the removal fails).
RemoveFile(i) ==
    /\ in_pc[i] = "remove"
    /\ \E removed \in BOOLEAN : sock_owner' = IF removed THEN 0 ELSE sock_owner
    /\ in_pc' = [in_pc EXCEPT ![i] = "bind"]
    /\ UNCHANGED in_exists
    /\ TwoRest

\* Lines 31-36: create_dir_all, bind and set_nonblocking.  The bind fails
\* while a file is at the path; any of the three may fail otherwise too.
Bind(i) ==
    /\ in_pc[i] = "bind"
    /\ \/ /\ sock_owner = 0
          /\ sock_owner' = i
          /\ in_pc' = [in_pc EXCEPT ![i] = "running"]
       \/ /\ in_pc' = [in_pc EXCEPT ![i] = "failed"]
          /\ UNCHANGED sock_owner
    /\ UNCHANGED in_exists
    /\ TwoRest

\* Daemon i is stopped by a signal (nothing stores to RUNNING, so lines
\* 80-81 are never reached): its socket file stays.
Stop(i) ==
    /\ in_pc[i] = "running"
    /\ in_pc' = [in_pc EXCEPT ![i] = "killed"]
    /\ UNCHANGED <<in_exists, sock_owner>>
    /\ TwoRest

NextTwo ==
    \E i \in Daemons :
        \/ Launch(i)
        \/ Exists(i)
        \/ RemoveFile(i)
        \/ Bind(i)
        \/ Stop(i)

SpecTwo == InitTwo /\ [][NextTwo]_vars

\* ------------------------------------------------------- claims, SpecTwo
\* C40 as stated: the socket file of a daemon that is running is removed
\* by no other daemon, at its start or at its end, so a running daemon is
\* reachable at the path: the file at the path is its socket.
C40_RunningStaysReachable ==
    \A i \in Daemons : in_pc[i] = "running" => sock_owner = i

====
